---------------------------- MODULE Spec2Model ----------------------------
(***************************************************************************)
(* A model of the rs-gfa parsers: the CIGAR codec, the GAF step / path     *)
(* grammar, the PAF / GAF record parsers (src/src/gafpaf.rs) and the lazy  *)
(* path step iterator (src/src/gfa.rs).                                    *)
(*                                                                         *)
(* Representation.                                                         *)
(*  - A byte string (&[u8], BString) is a sequence of one-character        *)
(*    strings: b"20M" is <<"2","0","M">>.  "\t" is the tab byte and the    *)
(*    string "0xFF" stands for a byte that is not valid UTF-8.             *)
(*  - TLC's integers are 32-bit signed, so a value of u8, u32 or usize is  *)
(*    held as its canonical decimal digits, most significant first, with   *)
(*    no leading zero: 20 is <<2,0>> and 0 is <<0>>.  Parsing a digit      *)
(*    string and printing a number are then real conversions, and the      *)
(*    width of each type is the digit sequence of its MAX.                 *)
(*  - A nom IResult is a record with status "Ok" (fields rest, val),       *)
(*    "Err" (a recoverable nom error) or "Panic" (the call unwinds).       *)
(*  - An Option is [some |-> FALSE] or [some |-> TRUE, val |-> v].         *)
(***************************************************************************)
EXTENDS Integers, Sequences, FiniteSets, TLC

VARIABLES
    cigar_in,       \* the bytes handed to CIGAR::parse
    cigar_res,      \* what CIGAR::parse returned for cigar_in
    cigar_str,      \* what Display wrote for the parsed CIGAR
    gaf_in,         \* the bytes / columns handed to a gafpaf parser
    gaf_call,       \* which gafpaf parser was called on gaf_in
    gaf_res,        \* what that parser returned
    segment_names,  \* Path.segment_names, the stored step string
    iter_last,      \* the Split iterator of Path::iter: bytes not yet split
    iter_done,      \* the Split iterator has produced its last fragment
    yielded,        \* the (identity, orientation) pairs produced so far
    iter_state,     \* "Running", "Finished" (next() returned None), "Panic"
    pass,           \* how many times Path::iter was called on the path
    first_pass,     \* what the first complete pass over the path yielded
    gfa,            \* the GFA value insert_line builds
    inserted,       \* the lines handed to insert_line so far, in order
    names_res,      \* what GFA::usize_names returned for gfa
    lines_state,    \* the iterator of gfa_into_iter: "Idle", "Iterating",
                    \* "Finished" (next() returned None)
    lines_left,     \* what the four chained iterators still hold
    produced,       \* the lines that iterator has produced so far
    err_in,         \* a ParseError value
    err_call,       \* which ParseError method was called on err_in
    err_res,        \* what that method returned
    file,           \* the lines of the input a driving loop reads
    drv,            \* the driving loop: "parse_gfa" or "parse_gfa_stream"
    drv_pos,        \* how many lines of file the loop has read
    drv_state,      \* "Idle", "Running", "Returned", "Panic"
    drv_gfa,        \* the graph parse_gfa has built so far
    drv_out,        \* the lines parse_gfa_stream has delivered so far
    psr_in,         \* the text handed to a parser.rs function
    psr_call,       \* which parser.rs function was called on psr_in
    psr_res         \* what that function returned

cigarVars == <<cigar_in, cigar_res, cigar_str>>
gafVars   == <<gaf_in, gaf_call, gaf_res>>
pathVars  == <<segment_names, iter_last, iter_done, yielded, iter_state,
               pass, first_pass>>
graphVars == <<gfa, inserted, names_res, lines_state, lines_left, produced>>
errVars   == <<err_in, err_call, err_res>>
drvVars   == <<file, drv, drv_pos, drv_state, drv_gfa, drv_out>>
psrVars   == <<psr_in, psr_call, psr_res>>
otherVars == <<graphVars, errVars, drvVars, psrVars>>
vars      == <<cigarVars, gafVars, pathVars, otherVars>>

---------------------------------------------------------------------------
(* Options, results and byte classes *)

None == [some |-> FALSE]

Some(v) == [some |-> TRUE, val |-> v]

Ok(rest, v) == [status |-> "Ok", rest |-> rest, val |-> v]

Err == [status |-> "Err"]

Panic == [status |-> "Panic"]

NotCalled == [status |-> "NotCalled"]

Digit == {"0", "1", "2", "3", "4", "5", "6", "7", "8", "9"}

\* char::to_digit(10) on an ASCII digit
DigitVal ==
    [c \in Digit |->
        CASE c = "0" -> 0 [] c = "1" -> 1 [] c = "2" -> 2 [] c = "3" -> 3
          [] c = "4" -> 4 [] c = "5" -> 5 [] c = "6" -> 6 [] c = "7" -> 7
          [] c = "8" -> 8 [] c = "9" -> 9]

\* the character a decimal digit is printed as
DigitChar ==
    [d \in 0..9 |->
        CASE d = 0 -> "0" [] d = 1 -> "1" [] d = 2 -> "2" [] d = 3 -> "3"
          [] d = 4 -> "4" [] d = 5 -> "5" [] d = 6 -> "6" [] d = 7 -> "7"
          [] d = 8 -> "8" [] d = 9 -> "9"]

\* s without its first n elements
Drop(s, n) == SubSeq(s, n + 1, Len(s))

\* the first n elements of s
Take(s, n) == SubSeq(s, 1, n)

\* the length of the longest prefix of s whose bytes all lie in set
PrefixLen(s, set) ==
    IF \E k \in 1..Len(s) : s[k] \notin set
    THEN (CHOOSE k \in 1..Len(s) :
            s[k] \notin set /\ \A j \in 1..(k - 1) : s[j] \in set) - 1
    ELSE Len(s)

\* the length of the longest prefix of s with no byte in set
PrefixLenNot(s, set) ==
    IF \E k \in 1..Len(s) : s[k] \in set
    THEN (CHOOSE k \in 1..Len(s) :
            s[k] \in set /\ \A j \in 1..(k - 1) : s[j] \notin set) - 1
    ELSE Len(s)

---------------------------------------------------------------------------
(* Unsigned integers as canonical decimal digit sequences *)

Zero10 == <<0>>

\* a < b on canonical decimals
Lt10(a, b) ==
    \/ Len(a) < Len(b)
    \/ /\ Len(a) = Len(b)
       /\ \E i \in 1..Len(a) :
            /\ a[i] < b[i]
            /\ \A j \in 1..(i - 1) : a[j] = b[j]

\* n * 10 + d
MulAdd10(n, d) == IF n = Zero10 THEN <<d>> ELSE Append(n, d)

\* u8::MAX = 255
U8_MAX == <<2, 5, 5>>

\* u32::MAX = 4294967295
U32_MAX == <<4, 2, 9, 4, 9, 6, 7, 2, 9, 5>>

\* usize::MAX = 18446744073709551615 (64-bit target)
USIZE_MAX == <<1, 8, 4, 4, 6, 7, 4, 4, 0, 7, 3, 7, 0, 9, 5, 5, 1, 6, 1, 5>>

\* the digit loop of <uN as FromStr>::from_str: every byte must be a digit,
\* result = result.checked_mul(10)?.checked_add(digit)?
RECURSIVE from_str_digits(_, _, _)
from_str_digits(digits, result, MAX) ==
    IF digits = <<>> THEN Some(result)
    ELSE IF Head(digits) \notin Digit THEN None
    ELSE LET r == MulAdd10(result, DigitVal[Head(digits)])
         IN  IF Lt10(MAX, r) THEN None
             ELSE from_str_digits(Tail(digits), r, MAX)

\* str::parse::<uN>() for an unsigned type with maximum MAX, as an Option
\* (.ok()): empty, a lone sign, a non-digit or an overflow is an error; one
\* leading '+' is accepted, a leading '-' is not
str_parse_unsigned(src, MAX) ==
    IF src = <<>> THEN None
    ELSE IF src = <<"+">> \/ src = <<"-">> THEN None
    ELSE from_str_digits(IF Head(src) = "+" THEN Tail(src) ELSE src,
                         Zero10, MAX)

\* Display of an unsigned integer: its decimal digits
fmt_unsigned(n) == [i \in 1..Len(n) |-> DigitChar[n[i]]]

---------------------------------------------------------------------------
(* CIGAR codec, src/src/gafpaf.rs *)

\* enum CIGAROp
CIGAROp == {"M", "I", "D", "N", "S", "H", "P", "E", "X"}

\* a plausible slip: the "exact match" code printed as its variant name
CIGAROp_to_u8_variant_name(op) == op

\* CIGAROp::to_u8
CIGAROp_to_u8(op) == IF op = "E" THEN "=" ELSE op

\* CIGAR::parse_op_cmd: alt of nine tags, each mapped to its variant
CIGAR_parse_op_cmd(input) ==
    IF input = <<>> THEN Err
    ELSE LET c == Head(input)
         IN  IF c \in {"M", "I", "D", "N", "S", "H", "P", "X"}
             THEN Ok(Tail(input), c)
             ELSE IF c = "=" THEN Ok(Tail(input), "E")
             ELSE Err

\* one element of CIGAR::parse: pair(map(digit1, parse::<u32>().unwrap()),
\* parse_op_cmd)
CIGAR_parse_run(i) ==
    LET n == PrefixLen(i, Digit)
    IN  IF n = 0 THEN Err
        ELSE LET len == str_parse_unsigned(Take(i, n), U32_MAX)
             IN  IF ~len.some THEN Panic
                 ELSE LET op == CIGAR_parse_op_cmd(Drop(i, n))
                      IN  IF op.status = "Ok"
                          THEN Ok(op.rest, <<len.val, op.val>>)
                          ELSE Err

\* the loop of nom's many1 after its first element
RECURSIVE CIGAR_parse_loop(_, _)
CIGAR_parse_loop(i, acc) ==
    LET r == CIGAR_parse_run(i)
    IN  CASE r.status = "Err" -> Ok(i, acc)
          [] r.status = "Panic" -> Panic
          [] r.status = "Ok" -> CIGAR_parse_loop(r.rest, Append(acc, r.val))

\* CIGAR::parse: map(many1(pair(..)), CIGAR)
CIGAR_parse(i) ==
    LET r == CIGAR_parse_run(i)
    IN  CASE r.status = "Err" -> Err
          [] r.status = "Panic" -> Panic
          [] r.status = "Ok" -> CIGAR_parse_loop(r.rest, <<r.val>>)

\* Display for CIGAR: write!(f, "{}{}", len, op) for each run
RECURSIVE CIGAR_fmt(_)
CIGAR_fmt(runs) ==
    IF runs = <<>> THEN <<>>
    ELSE fmt_unsigned(Head(runs)[1]) \o <<CIGAROp_to_u8(Head(runs)[2])>>
         \o CIGAR_fmt(Tail(runs))

---------------------------------------------------------------------------
(* GAF steps and paths, src/src/gafpaf.rs *)

\* a value returned by a function that may also panic
Returned(v) == [status |-> "Returned", val |-> v]

\* GAFStep::SegId(orient, name)
SegId(orient, name) == [kind |-> "SegId", orient |-> orient, name |-> name]

\* GAFStep::StableIntv(orient, name, start..end)
StableIntv(orient, name, start, end) ==
    [kind |-> "StableIntv", orient |-> orient, name |-> name,
     range |-> [start |-> start, end |-> end]]

\* GAFPath::StableId(id)
StableId(id) == [kind |-> "StableId", id |-> id]

\* GAFPath::OrientIntv(steps)
OrientIntv(steps) == [kind |-> "OrientIntv", steps |-> steps]

\* the bytes is_not("<>: \t\r\n") stops at
NameStop == {"<", ">", ":", " ", "\t", "\r", "\n"}

\* GAFStep::parse_orient: alt((tag(">") -> Forward, tag("<") -> Backward))
GAFStep_parse_orient(bytes) ==
    IF bytes = <<>> THEN Err
    ELSE IF Head(bytes) = ">" THEN Ok(Tail(bytes), "Forward")
    ELSE IF Head(bytes) = "<" THEN Ok(Tail(bytes), "Backward")
    ELSE Err

\* s.parse::<usize>().unwrap() on the digits digit1 matched
unwrap_usize(v, rest) == IF v.some THEN Ok(rest, v.val) ELSE Panic

\* parse_digits once digit1 has matched the first n bytes of i
parse_digits_at(i, n) ==
    IF n = 0 THEN Err
    ELSE unwrap_usize(str_parse_unsigned(Take(i, n), USIZE_MAX), Drop(i, n))

\* parse_digits: map(digit1, |bs| parse::<usize>().unwrap())
parse_digits(i) == parse_digits_at(i, PrefixLen(i, Digit))

\* separated_pair, its second parse_digits done
parse_range_end(start, end) ==
    IF end.status # "Ok" THEN end
    ELSE Ok(end.rest, <<start.val, end.val>>)

\* separated_pair, its first parse_digits done: tag("-"), parse_digits
parse_range_sep(start) ==
    IF start.status # "Ok" THEN start
    ELSE IF start.rest = <<>> \/ Head(start.rest) # "-" THEN Err
    ELSE parse_range_end(start, parse_digits(Tail(start.rest)))

\* parse_range: preceded(tag(":"),
\*                       separated_pair(parse_digits, tag("-"), parse_digits))
parse_range(i) ==
    IF i = <<>> \/ Head(i) # ":" THEN Err
    ELSE parse_range_sep(parse_digits(Tail(i)))

\* the end of parse_step: opt(parse_range) gave range on the input i
parse_step_range(orient, name, i, range) ==
    CASE range.status = "Panic" -> Panic
      [] range.status = "Ok" ->
            Ok(range.rest,
               StableIntv(orient, name, range.val[1], range.val[2]))
      [] range.status = "Err" -> Ok(i, SegId(orient, name))

\* parse_step once is_not("<>: \t\r\n") has matched the first n bytes of i
parse_step_name(orient, i, n) ==
    IF n = 0 THEN Err
    ELSE parse_step_range(orient, Take(i, n), Drop(i, n),
                          parse_range(Drop(i, n)))

\* parse_step once parse_orient has run
parse_step_orient(orient) ==
    IF orient.status # "Ok" THEN Err
    ELSE parse_step_name(orient.val, orient.rest,
                         PrefixLenNot(orient.rest, NameStop))

\* GAFStep::parse_step
GAFStep_parse_step(i) == parse_step_orient(GAFStep_parse_orient(i))

RECURSIVE parse_path_loop(_, _)
\* one turn of many1's loop: the step parser returned r on the input i
parse_path_turn(r, i, acc) ==
    CASE r.status = "Err" -> Ok(i, acc)
      [] r.status = "Panic" -> Panic
      [] r.status = "Ok" -> parse_path_loop(r.rest, Append(acc, r.val))

\* the loop of many1(GAFStep::parse_step) after its first step
parse_path_loop(i, acc) == parse_path_turn(GAFStep_parse_step(i), i, acc)

\* many1's first step: an error here is many1's error
parse_path_first(r) ==
    CASE r.status = "Err" -> Err
      [] r.status = "Panic" -> Panic
      [] r.status = "Ok" -> parse_path_loop(r.rest, <<r.val>>)

\* many1(GAFStep::parse_step)
parse_path_many1(i) == parse_path_first(GAFStep_parse_step(i))

\* a plausible slip: the stable identifier taken without the check for
\* '<' and '>'
parse_stable_id_unverified(i, n) ==
    IF n = 0 THEN Err ELSE Ok(Drop(i, n), StableId(Take(i, n)))

\* verify(is_not("\t"), |bs| bs.find_byteset("><").is_none()), is_not
\* having matched the first n bytes of i
parse_stable_id(i, n) ==
    IF n = 0 THEN Err
    ELSE IF \E k \in 1..n : i[k] \in {">", "<"} THEN Err
    ELSE Ok(Drop(i, n), StableId(Take(i, n)))

\* parse_path once opt(many1(parse_step)) has run
parse_path_opt(i, path) ==
    CASE path.status = "Panic" -> Panic
      [] path.status = "Ok" -> Ok(path.rest, OrientIntv(path.val))
      [] path.status = "Err" -> parse_stable_id(i, PrefixLenNot(i, {"\t"}))

\* GAFPath::parse_path
GAFPath_parse_path(i) == parse_path_opt(i, parse_path_many1(i))

---------------------------------------------------------------------------
(* PAF and GAF records, src/src/gafpaf.rs *)

\* std::str::from_utf8(bytes).ok(); "0xFF" is a byte no UTF-8 text holds
from_utf8(bytes) ==
    IF \E k \in 1..Len(bytes) : bytes[k] = "0xFF" THEN None ELSE Some(bytes)

\* Orientation::from_bytes
Orientation_from_bytes(bs) ==
    IF bs = <<"+">> THEN Some("Forward")
    ELSE IF bs = <<"-">> THEN Some("Backward")
    ELSE None

\* .and_then(|p| p.parse().ok())
parse_utf8(p, MAX) == IF p.some THEN str_parse_unsigned(p.val, MAX) ELSE None

\* a plausible slip: a column that does not parse read as the default, 0
or_default(v) == IF v.some THEN v ELSE Some(Zero10)

\* a plausible slip of parse_next: unwrap_or_default in place of `?`
parse_next_or_default(input, MAX) ==
    IF input = <<>> THEN None
    ELSE or_default(parse_utf8(from_utf8(Head(input)), MAX))

\* parse_next::<_, uN>: the next column parsed as an unsigned integer of
\* maximum MAX; input is what the iterator has left
parse_next(input, MAX) ==
    IF input = <<>> THEN None
    ELSE parse_utf8(from_utf8(Head(input)), MAX)

\* the end of parse_seq_fields: `?` on each of len, start, end in turn
seq_fields(name, len, start, end) ==
    IF ~len.some THEN None
    ELSE IF ~start.some THEN None
    ELSE IF ~end.some THEN None
    ELSE Some([name |-> name, len |-> len.val,
               range |-> [start |-> start.val, end |-> end.val]])

\* parse_seq_fields: name, len, start, end from the next four columns
parse_seq_fields(input) ==
    IF input = <<>> THEN None
    ELSE seq_fields(Head(input),
                    parse_next(Drop(input, 1), USIZE_MAX),
                    parse_next(Drop(input, 2), USIZE_MAX),
                    parse_next(Drop(input, 3), USIZE_MAX))

\* input.next().and_then(Orientation::from_bytes)
next_strand(input) ==
    IF input = <<>> THEN None ELSE Orientation_from_bytes(Head(input))

\* T::parse(input) of the tag-capture policy: the trailing columns, kept in
\* input order
OptFields_parse(input) == input

\* the end of parse_paf: `?` on each group of columns in turn, then the
\* record
paf_record(query, strand, target, matches, block_length, quality, optional) ==
    IF ~query.some THEN None
    ELSE IF ~strand.some THEN None
    ELSE IF ~target.some THEN None
    ELSE IF ~matches.some THEN None
    ELSE IF ~block_length.some THEN None
    ELSE IF ~quality.some THEN None
    ELSE Some([query_seq_name   |-> query.val.name,
               query_seq_len    |-> query.val.len,
               query_seq_range  |-> query.val.range,
               strand           |-> strand.val,
               target_seq_name  |-> target.val.name,
               target_seq_len   |-> target.val.len,
               target_seq_range |-> target.val.range,
               residue_matches  |-> matches.val,
               block_length     |-> block_length.val,
               quality          |-> quality.val,
               optional         |-> optional])

\* parse_paf: the twelve columns in order, then the optional fields
parse_paf(input) ==
    paf_record(parse_seq_fields(input),
               next_strand(Drop(input, 4)),
               parse_seq_fields(Drop(input, 5)),
               parse_next(Drop(input, 9), USIZE_MAX),
               parse_next(Drop(input, 10), USIZE_MAX),
               parse_next(Drop(input, 11), U8_MAX),
               OptFields_parse(Drop(input, 12)))

\* a plausible slip: the path length taken from the query length
gaf_record_query_len(paf, path) ==
    [path            |-> path,
     seq_name        |-> paf.query_seq_name,
     seq_len         |-> paf.query_seq_len,
     seq_range       |-> paf.query_seq_range,
     strand          |-> paf.strand,
     path_len        |-> paf.query_seq_len,
     path_range      |-> paf.target_seq_range,
     residue_matches |-> paf.residue_matches,
     block_length    |-> paf.block_length,
     quality         |-> paf.quality,
     optional        |-> paf.optional]

\* the GAF record parse_gaf builds from the PAF record and the path
gaf_record(paf, path) ==
    [path            |-> path,
     seq_name        |-> paf.query_seq_name,
     seq_len         |-> paf.query_seq_len,
     seq_range       |-> paf.query_seq_range,
     strand          |-> paf.strand,
     path_len        |-> paf.target_seq_len,
     path_range      |-> paf.target_seq_range,
     residue_matches |-> paf.residue_matches,
     block_length    |-> paf.block_length,
     quality         |-> paf.quality,
     optional        |-> paf.optional]

\* GAFPath::parse_path(&paf.target_seq_name).ok()?, then the record
gaf_of_path(paf, path) ==
    CASE path.status = "Panic" -> Panic
      [] path.status = "Err" -> Returned(None)
      [] path.status = "Ok" -> Returned(Some(gaf_record(paf, path.val)))

\* parse_paf(input)?, then the path
gaf_of_paf(paf) ==
    IF ~paf.some THEN Returned(None)
    ELSE gaf_of_path(paf.val, GAFPath_parse_path(paf.val.target_seq_name))

\* parse_gaf: parse_paf, then the target name parsed as a GAF path
parse_gaf(input) == gaf_of_paf(parse_paf(input))

---------------------------------------------------------------------------
(* Input alphabets.  An input is the concatenation of a few chunks; a chunk *)
(* is a byte or a short byte string that makes a case of the grammar cheap  *)
(* to reach (a digit run one past the integer type's maximum, a whole       *)
(* step).                                                                   *)

RECURSIVE Flatten(_)
Flatten(ss) == IF ss = <<>> THEN <<>> ELSE Head(ss) \o Flatten(Tail(ss))

\* every concatenation of at most n chunks
Concats(chunks, n) ==
    { Flatten(cs) : cs \in UNION { [1..k -> chunks] : k \in 0..n } }

MaxCigarChunks == 4

CigarChunks ==
    { <<"0">>, <<"2">>, <<"M">>, <<"=">>, <<"x">>,
      <<"4", "2", "9", "4", "9", "6", "7", "2", "9", "5">>,
      <<"4", "2", "9", "4", "9", "6", "7", "2", "9", "6">> }

CigarInputs == Concats(CigarChunks, MaxCigarChunks)

MaxPathChunks == 4

\* a digit run one past usize::MAX: 18446744073709551616
UsizeOverflowDigits ==
    <<"1", "8", "4", "4", "6", "7", "4", "4", "0", "7",
      "3", "7", "0", "9", "5", "5", "1", "6", "1", "6">>

PathChunks ==
    { <<">", "a">>, <<"<", "b">>, <<":", "5", "-", "1", "6">>,
      <<":">> \o UsizeOverflowDigits \o <<"-", "1">>,
      <<":">>, <<"x">>, <<"\t">>, <<">">> }

\* target-name columns
PathInputs == Concats(PathChunks, MaxPathChunks)

\* the twelve required columns of the tests' first GAF line, its names
\* shortened, with the given target-name column
BaseColumns(target) ==
    << <<"r">>, <<"6">>, <<"0">>, <<"6">>, <<"+">>, target,
       <<"1", "2">>, <<"2">>, <<"8">>, <<"7">>, <<"9">>, <<"6", "0">> >>

\* an optional column
TagColumn == <<"c", "g", ":", "Z", ":", "6", "M">>

\* the first n columns of that line followed by optional columns
BaseLine(target, n) ==
    [i \in 1..n |-> IF i <= 12 THEN BaseColumns(target)[i] ELSE TagColumn]

\* what a column of the record is replaced by
ColumnChoices ==
    { <<>>, <<"5">>, <<"+", "5">>, <<"-", "5">>, <<"0", "5">>, <<"x">>,
      <<"+">>, <<"-">>, <<"5", "x">>, <<"5", "0xFF">>,
      <<"2", "5", "5">>, <<"2", "5", "6">>, UsizeOverflowDigits }

MaxColumns == 13

\* records of at most MaxColumns columns with one column replaced
PafLines ==
    { [i \in 1..n |-> IF i = c THEN v
                      ELSE BaseLine(<<">", "a", "<", "b">>, n)[i]] :
        c \in 1..12, v \in ColumnChoices, n \in 0..MaxColumns }

\* target-name columns with bytes after the last step of a walk
TrailingTargets ==
    { <<">", "a", " ", "x">>, <<">", "a", ":", "5", "-", "1", "6", " ", "x">>,
      <<"a", " ", "x">> }

GafInputs ==
    PafLines \cup { BaseLine(t, MaxColumns) : t \in PathInputs }
        \cup { BaseLine(t, MaxColumns) : t \in TrailingTargets }

---------------------------------------------------------------------------
(* The CIGAR codec as a state machine: parse the input, then display the    *)
(* parsed value.                                                            *)

CigarIdle ==
    /\ cigar_in = <<>>
    /\ cigar_res = NotCalled
    /\ cigar_str = None

GafIdle ==
    /\ gaf_in = <<>>
    /\ gaf_call = "none"
    /\ gaf_res = NotCalled

PathIdle ==
    /\ segment_names = <<>>
    /\ iter_last = <<>>
    /\ iter_done = FALSE
    /\ yielded = <<>>
    /\ iter_state = "Idle"
    /\ pass = 0
    /\ first_pass = None

\* no graph in use
GraphIdle ==
    /\ gfa = <<>>
    /\ inserted = <<>>
    /\ names_res = NotCalled
    /\ lines_state = "Idle"
    /\ lines_left = <<>>
    /\ produced = <<>>

\* no ParseError in use
ErrorIdle ==
    /\ err_in = <<>>
    /\ err_call = "none"
    /\ err_res = NotCalled

\* no driving loop of parser.rs in use
DriverIdle ==
    /\ file = <<>>
    /\ drv = "none"
    /\ drv_pos = 0
    /\ drv_state = "Idle"
    /\ drv_gfa = <<>>
    /\ drv_out = <<>>

\* no record or tag parser of parser.rs called
CallIdle ==
    /\ psr_in = <<>>
    /\ psr_call = "none"
    /\ psr_res = NotCalled

\* no parser.rs call in progress
ParserIdle == DriverIdle /\ CallIdle

\* nothing but the component under study is in use
OthersIdle == GraphIdle /\ ErrorIdle /\ ParserIdle

CigarInit ==
    /\ cigar_in \in CigarInputs
    /\ cigar_res = NotCalled
    /\ cigar_str = None
    /\ GafIdle
    /\ PathIdle
    /\ OthersIdle

\* let (rest, cigar) = CIGAR::parse(input)
CigarParse ==
    /\ cigar_res = NotCalled
    /\ cigar_res' = CIGAR_parse(cigar_in)
    /\ UNCHANGED <<cigar_in, cigar_str, gafVars, pathVars, otherVars>>

\* cigar.to_string()
CigarDisplay ==
    /\ cigar_res.status = "Ok"
    /\ cigar_str = None
    /\ cigar_str' = Some(CIGAR_fmt(cigar_res.val))
    /\ UNCHANGED <<cigar_in, cigar_res, gafVars, pathVars, otherVars>>

CigarNext == CigarParse \/ CigarDisplay

SpecCigar == CigarInit /\ [][CigarNext]_vars

---------------------------------------------------------------------------
(* The gafpaf parsers as a state machine: one parser is called on the       *)
(* record (parse_paf, parse_gaf) or on its target-name column (parse_step,  *)
(* parse_path).                                                             *)

GafInit ==
    /\ gaf_in \in GafInputs
    /\ gaf_call = "none"
    /\ gaf_res = NotCalled
    /\ CigarIdle
    /\ PathIdle
    /\ OthersIdle

\* GAFStep::parse_step(target_name)
CallParseStep ==
    /\ gaf_call = "none"
    /\ Len(gaf_in) >= 6
    /\ gaf_call' = "parse_step"
    /\ gaf_res' = GAFStep_parse_step(gaf_in[6])
    /\ UNCHANGED <<gaf_in, cigarVars, pathVars, otherVars>>

\* GAFPath::parse_path(target_name)
CallParsePath ==
    /\ gaf_call = "none"
    /\ Len(gaf_in) >= 6
    /\ gaf_call' = "parse_path"
    /\ gaf_res' = GAFPath_parse_path(gaf_in[6])
    /\ UNCHANGED <<gaf_in, cigarVars, pathVars, otherVars>>

\* parse_paf(columns)
CallParsePaf ==
    /\ gaf_call = "none"
    /\ gaf_call' = "parse_paf"
    /\ gaf_res' = Returned(parse_paf(gaf_in))
    /\ UNCHANGED <<gaf_in, cigarVars, pathVars, otherVars>>

\* parse_gaf(columns)
CallParseGaf ==
    /\ gaf_call = "none"
    /\ gaf_call' = "parse_gaf"
    /\ gaf_res' = parse_gaf(gaf_in)
    /\ UNCHANGED <<gaf_in, cigarVars, pathVars, otherVars>>

GafNext == CallParseStep \/ CallParsePath \/ CallParsePaf \/ CallParseGaf

SpecGaf == GafInit /\ [][GafNext]_vars

---------------------------------------------------------------------------
(* The CIGAR grammar stated on the text itself, independently of the parser *)

OpByte == {"M", "I", "D", "N", "S", "H", "P", "=", "X"}

\* s matches ([0-9]+[MIDNSHP=X])+
ValidCigarText(s) ==
    /\ s # <<>>
    /\ \A i \in 1..Len(s) : s[i] \in Digit \cup OpByte
    /\ s[Len(s)] \in OpByte
    /\ \A i \in 1..Len(s) : s[i] \in OpByte => (i > 1 /\ s[i - 1] \in Digit)

\* a digit run of s starts at i
RunStart(s, i) == s[i] \in Digit /\ (i = 1 \/ s[i - 1] \notin Digit)

\* the maximal digit run of s that starts at i
RunAt(s, i) == Take(Drop(s, i - 1), PrefixLen(Drop(s, i - 1), Digit))

\* the number a non-empty digit string denotes
DecimalValue(ds) ==
    LET z == PrefixLen(ds, {"0"})
    IN  IF z = Len(ds) THEN Zero10
        ELSE [i \in 1..(Len(ds) - z) |-> DigitVal[ds[i + z]]]

\* no run length of s is written with a superfluous leading zero
NoLeadingZeros(s) ==
    \A i \in 1..Len(s) :
        (RunStart(s, i) /\ s[i] = "0") => Len(RunAt(s, i)) = 1

\* every run length of s fits the u32 run-length type
RunsFitU32(s) ==
    \A i \in 1..Len(s) :
        RunStart(s, i) => ~Lt10(U32_MAX, DecimalValue(RunAt(s, i)))

\* s begins with one complete (digits, operation code) run
BeginsWithRun(s) ==
    LET n == PrefixLen(s, Digit)
    IN  n >= 1 /\ n < Len(s) /\ s[n + 1] \in OpByte

\* reading runs from the start of s, the parser meets a digit run that does
\* not fit u32: everything before it is a sequence of complete runs that fit
ReachesOverflow(s) ==
    \E i \in 1..Len(s) :
        /\ RunStart(s, i)
        /\ Lt10(U32_MAX, DecimalValue(RunAt(s, i)))
        /\ i > 1 => (ValidCigarText(Take(s, i - 1)) /\ RunsFitU32(Take(s, i - 1)))

---------------------------------------------------------------------------
(* Claims about the CIGAR codec, under SpecCigar *)

\* C1 as stated: for every valid CIGAR byte string s, Display of
\* CIGAR::parse(s) reproduces s byte for byte.  Refuted by a run length
\* written with a leading zero ("02M" is displayed as "2M").
C1_RoundTripEveryValid ==
    (ValidCigarText(cigar_in) /\ cigar_str.some) => cigar_str.val = cigar_in

\* C1 as amended: for every valid CIGAR byte string s whose run lengths are
\* written without leading zeros and fit u32, CIGAR::parse(s) succeeds
\* consuming all of s, and Display of the result reproduces s byte for byte.
C1_RoundTripCanonical ==
    (ValidCigarText(cigar_in) /\ NoLeadingZeros(cigar_in)
        /\ RunsFitU32(cigar_in))
    => /\ cigar_res # NotCalled =>
            (cigar_res.status = "Ok" /\ cigar_res.rest = <<>>)
       /\ cigar_str.some => cigar_str.val = cigar_in

\* C1 witness: a two-run CIGAR with an "=" run was parsed and displayed back
C1_Witness ==
    /\ cigar_str.some
    /\ cigar_str.val = cigar_in
    /\ Len(cigar_res.val) = 2
    /\ \E k \in 1..2 : cigar_res.val[k][2] = "E"

\* C2 as stated: CIGAR::parse returns an error whenever the input does not
\* begin with a complete (digits, operation code) run, and a successful
\* parse never yields an empty run list.
C2_ErrorWithoutLeadingRun ==
    cigar_res # NotCalled =>
        /\ ~BeginsWithRun(cigar_in) => cigar_res.status = "Err"
        /\ cigar_res.status = "Ok" => cigar_res.val # <<>>

\* C3 as stated: CIGAR::parse returns an error value when a run length's
\* digit string overflows u32; it neither wraps nor aborts.
C3_OverflowIsError ==
    (cigar_res # NotCalled /\ ReachesOverflow(cigar_in))
        => cigar_res.status = "Err"

---------------------------------------------------------------------------
(* The target-name grammar stated on the text itself, independently of the  *)
(* parsers                                                                  *)

Marker == {"<", ">"}

NonPrintable == {"\t", "\r", "\n", "0xFF"}

\* the bytes of w after the marker at i, up to the next marker
PieceAt(w, i) == Take(Drop(w, i), PrefixLenNot(Drop(w, i), Marker))

\* r is ":" digits "-" digits
IntervalText(r) ==
    /\ r # <<>>
    /\ r[1] = ":"
    /\ \E d \in 3..(Len(r) - 1) :
         /\ r[d] = "-"
         /\ \A k \in 2..Len(r) : k # d => r[k] \in Digit

\* b is an identity, optionally followed by an interval
StepBodyText(b) ==
    LET n == PrefixLenNot(b, NameStop)
    IN  n >= 1 /\ (n = Len(b) \/ IntervalText(Drop(b, n)))

\* w is one or more steps, and nothing else
OrientedWalkText(w) ==
    /\ w # <<>>
    /\ w[1] \in Marker
    /\ \A i \in 1..Len(w) : w[i] \in Marker => StepBodyText(PieceAt(w, i))

\* t is a stable identifier: printable bytes, none of them '<' or '>'
StableIdText(t) ==
    /\ t # <<>>
    /\ \A i \in 1..Len(t) : t[i] \notin Marker \cup NonPrintable

\* t begins with a marker and at least one byte of an identity
BeginsWithStep(t) == Len(t) >= 2 /\ t[1] \in Marker /\ t[2] \notin NameStop

\* t up to its first tab
BeforeTab(t) == Take(t, PrefixLenNot(t, {"\t"}))

\* t does not start with a marker and holds one before its first tab
BareMarker(t) ==
    /\ t # <<>>
    /\ t[1] \notin Marker
    /\ \E i \in 1..Len(BeforeTab(t)) : t[i] \in Marker

\* the positions of the markers of w
MarkerPositions(w) == { i \in 1..Len(w) : w[i] \in Marker }

\* the position of the k-th marker of w
NthMarker(w, k) ==
    CHOOSE i \in MarkerPositions(w) :
        Cardinality({ j \in MarkerPositions(w) : j <= i }) = k

\* the step the piece of w at marker i denotes
ExpectedStep(w, i) ==
    LET body   == PieceAt(w, i)
        orient == IF w[i] = ">" THEN "Forward" ELSE "Backward"
        n      == PrefixLenNot(body, {":"})
        intv   == Drop(body, n + 1)
        d      == PrefixLenNot(intv, {"-"})
    IN  IF n = Len(body) THEN SegId(orient, body)
        ELSE StableIntv(orient, Take(body, n),
                        DecimalValue(Take(intv, d)),
                        DecimalValue(Drop(intv, d + 1)))

\* the steps the walk w denotes, in the order of the text
ExpectedSteps(w) ==
    [k \in 1..Cardinality(MarkerPositions(w)) |->
        ExpectedStep(w, NthMarker(w, k))]

\* tok is a number of the unsigned type with maximum MAX, as Rust reads
\* one: an optional '+', then digits whose value is at most MAX
UnsignedText(tok, MAX) ==
    LET ds == IF tok # <<>> /\ tok[1] = "+" THEN Tail(tok) ELSE tok
    IN  /\ ds # <<>>
        /\ \A i \in 1..Len(ds) : ds[i] \in Digit
        /\ ~Lt10(MAX, DecimalValue(ds))

\* the value of such a column
UnsignedValue(tok) ==
    DecimalValue(IF tok[1] = "+" THEN Tail(tok) ELSE tok)

\* the columns of a PAF record that hold a usize
UsizeColumns == {2, 3, 4, 7, 8, 9, 10, 11}

\* all twelve required columns are there and well formed
RequiredColumnsOk(line) ==
    /\ Len(line) >= 12
    /\ \A c \in UsizeColumns : UnsignedText(line[c], USIZE_MAX)
    /\ UnsignedText(line[12], U8_MAX)
    /\ line[5] \in {<<"+">>, <<"-">>}

---------------------------------------------------------------------------
(* Claims about the gafpaf parsers, under SpecGaf *)

\* C4 as stated: every well-formed target-name token is classified by
\* GAFPath::parse_path as exactly one of OrientIntv and StableId, never
\* neither, and a token is classified as an oriented walk iff it begins
\* with a valid step.
C4_ExclusiveAndTotal ==
    gaf_call = "parse_path" =>
        LET t == gaf_in[6]
        IN  /\ (OrientedWalkText(t) \/ StableIdText(t)) =>
                  /\ gaf_res.status = "Ok"
                  /\ gaf_res.val.kind =
                        (IF OrientedWalkText(t) THEN "OrientIntv"
                         ELSE "StableId")
            /\ gaf_res.status = "Ok" =>
                  (gaf_res.val.kind = "OrientIntv" <=> BeginsWithStep(t))

\* C5 as stated: parsing an oriented walk of k steps yields OrientIntv
\* with exactly those k steps in input order ('>' Forward, '<' Backward,
\* 'id' a SegId, 'id:start-end' a StableIntv), stopping at a tab and
\* returning the rest; parse_step yields the first of them.
C5_WalkSteps ==
    (gaf_call \in {"parse_path", "parse_step"} /\
     OrientedWalkText(BeforeTab(gaf_in[6]))) =>
        LET t == gaf_in[6]
            w == BeforeTab(t)
        IN  /\ gaf_call = "parse_path" =>
                  /\ gaf_res.status = "Ok"
                  /\ gaf_res.val = OrientIntv(ExpectedSteps(w))
                  /\ Len(gaf_res.val.steps) = Cardinality(MarkerPositions(w))
                  /\ gaf_res.rest = Drop(t, Len(w))
            /\ gaf_call = "parse_step" =>
                  /\ gaf_res.status = "Ok"
                  /\ gaf_res.val = ExpectedStep(w, 1)
                  /\ gaf_res.rest = Drop(t, 1 + Len(PieceAt(w, 1)))

\* C6: a target name that does not start with '<' or '>' but holds one
\* before its first tab is rejected by GAFPath::parse_path, and parse_gaf
\* returns no record for a line with such a target name.
C6_BareMarkerRejected ==
    (Len(gaf_in) >= 6 /\ BareMarker(gaf_in[6])) =>
        /\ gaf_call = "parse_path" => gaf_res.status = "Err"
        /\ gaf_call = "parse_gaf" => gaf_res = Returned(None)

\* C6 witness: parse_gaf was called on a line whose twelve columns parse
\* as a PAF record and whose target name holds a bare marker, and returned
\* no record
C6_Witness ==
    /\ gaf_call = "parse_gaf"
    /\ RequiredColumnsOk(gaf_in)
    /\ BareMarker(gaf_in[6])
    /\ gaf_res = Returned(None)

\* C7: parse_gaf returns a record only if parse_paf returns one on the same
\* columns, and then every field but path equals the PAF field it is named
\* after, and path is the parse of the PAF target name.
C7_GafRefinesPaf ==
    (gaf_call = "parse_gaf" /\ gaf_res.status = "Returned"
        /\ gaf_res.val.some) =>
        LET gaf == gaf_res.val.val
            paf == parse_paf(gaf_in)
        IN  /\ paf.some
            /\ gaf.seq_name = paf.val.query_seq_name
            /\ gaf.seq_len = paf.val.query_seq_len
            /\ gaf.seq_range = paf.val.query_seq_range
            /\ gaf.strand = paf.val.strand
            /\ gaf.path_len = paf.val.target_seq_len
            /\ gaf.path_range = paf.val.target_seq_range
            /\ gaf.residue_matches = paf.val.residue_matches
            /\ gaf.block_length = paf.val.block_length
            /\ gaf.quality = paf.val.quality
            /\ gaf.optional = paf.val.optional
            /\ GAFPath_parse_path(paf.val.target_seq_name).status = "Ok"
            /\ gaf.path = GAFPath_parse_path(paf.val.target_seq_name).val

\* C7 witness: parse_gaf returned a record whose path is a walk of two
\* steps and whose query and path lengths differ
C7_Witness ==
    /\ gaf_call = "parse_gaf"
    /\ gaf_res.status = "Returned"
    /\ gaf_res.val.some
    /\ gaf_res.val.val.path.kind = "OrientIntv"
    /\ Len(gaf_res.val.val.path.steps) = 2
    /\ gaf_res.val.val.seq_len # gaf_res.val.val.path_len

\* C8: parse_paf returns no record when a required column is missing, a
\* numeric column is not a number of its type or the strand is not '+' or
\* '-'; a record it does return holds the columns' own values, never a
\* default.
C8_PafRequiresAllColumns ==
    gaf_call = "parse_paf" =>
        /\ ~RequiredColumnsOk(gaf_in) => gaf_res = Returned(None)
        /\ gaf_res.val.some =>
              LET paf == gaf_res.val.val
              IN  /\ paf.query_seq_name = gaf_in[1]
                  /\ paf.query_seq_len = UnsignedValue(gaf_in[2])
                  /\ paf.query_seq_range.start = UnsignedValue(gaf_in[3])
                  /\ paf.query_seq_range.end = UnsignedValue(gaf_in[4])
                  /\ paf.strand =
                        (IF gaf_in[5] = <<"+">> THEN "Forward"
                         ELSE "Backward")
                  /\ paf.target_seq_name = gaf_in[6]
                  /\ paf.target_seq_len = UnsignedValue(gaf_in[7])
                  /\ paf.target_seq_range.start = UnsignedValue(gaf_in[8])
                  /\ paf.target_seq_range.end = UnsignedValue(gaf_in[9])
                  /\ paf.residue_matches = UnsignedValue(gaf_in[10])
                  /\ paf.block_length = UnsignedValue(gaf_in[11])
                  /\ paf.quality = UnsignedValue(gaf_in[12])

\* C8 witness: parse_paf was called on twelve columns of which only the
\* quality, 256, is not a number of its type, and returned no record
C8_Witness ==
    /\ gaf_call = "parse_paf"
    /\ Len(gaf_in) >= 12
    /\ \A c \in UsizeColumns : UnsignedText(gaf_in[c], USIZE_MAX)
    /\ gaf_in[5] \in {<<"+">>, <<"-">>}
    /\ gaf_in[12] = <<"2", "5", "6">>
    /\ gaf_res = Returned(None)

---------------------------------------------------------------------------
(* gfa.rs: Path::iter, the lazy iterator over a path's stored steps *)

\* the position of the first ',' of rest, 0 if it has none
find_comma(rest) ==
    IF PrefixLenNot(rest, {","}) = Len(rest) THEN 0
    ELSE PrefixLenNot(rest, {","}) + 1

\* what one call of the splitting iterator gives: the fragment, if any,
\* and the iterator's new state
split_result(item, rest, done) == [item |-> item, rest |-> rest, done |-> done]

\* a splitting iterator that forgets the fragment after the last ','
split_next_no_last(rest, done) ==
    IF find_comma(rest) # 0
    THEN split_result(Some(Take(rest, find_comma(rest) - 1)),
                      Drop(rest, find_comma(rest)), done)
    ELSE split_result(None, <<>>, TRUE)

\* segment_names.split_str(b","), one call of next(): the bytes up to the
\* next ',', or else what is left, once, even when nothing is left
split_next(rest, done) ==
    IF find_comma(rest) # 0
    THEN split_result(Some(Take(rest, find_comma(rest) - 1)),
                      Drop(rest, find_comma(rest)), done)
    ELSE IF rest = <<>>
         THEN IF ~done THEN split_result(Some(<<>>), <<>>, TRUE)
              ELSE split_result(None, <<>>, TRUE)
         ELSE split_result(Some(rest), <<>>, TRUE)

\* a step parser that takes any other last byte for Forward
parse_path_segment_default(input) ==
    IF input = <<>> THEN Returned(<<input, "Forward">>)
    ELSE Returned(<<Take(input, Len(input) - 1),
                    IF input[Len(input)] = "-" THEN "Backward"
                    ELSE "Forward">>)

\* parse_path_segment: the last byte is the orientation, the bytes before
\* it the segment; an empty fragment has no last byte and indexing fails
parse_path_segment(input) ==
    IF input = <<>> THEN Panic
    ELSE IF input[Len(input)] = "+"
         THEN Returned(<<Take(input, Len(input) - 1), "Forward">>)
    ELSE IF input[Len(input)] = "-"
         THEN Returned(<<Take(input, Len(input) - 1), "Backward">>)
    ELSE Panic

\* Split::next mapped through parse_path_segment
iter_next_item(r) ==
    IF r.item.some THEN parse_path_segment(r.item.val) ELSE Returned(None)

MaxSegChunks == 5

MaxPasses == 2

SegChunks == { <<"1">>, <<"a", "+">>, <<"2", "-">>, <<",">>, <<"+">> }

SegmentNames == Concats(SegChunks, MaxSegChunks)

PathInit ==
    /\ segment_names \in SegmentNames
    /\ iter_last = <<>>
    /\ iter_done = FALSE
    /\ yielded = <<>>
    /\ iter_state = "Idle"
    /\ pass = 0
    /\ first_pass = None
    /\ CigarIdle
    /\ GafIdle
    /\ OthersIdle

\* path.iter(): a new iterator over the stored bytes; nothing is split yet
PathIter ==
    /\ pass < MaxPasses
    /\ iter_state # "Iterating"
    /\ iter_last' = segment_names
    /\ iter_done' = FALSE
    /\ yielded' = <<>>
    /\ iter_state' = "Iterating"
    /\ pass' = pass + 1
    /\ first_pass' = IF pass = 1
                     THEN Some([items |-> yielded, state |-> iter_state])
                     ELSE first_pass
    /\ UNCHANGED <<segment_names, cigarVars, gafVars, otherVars>>

\* the outcome of next() given what the splitting iterator produced
PathNextWith(r, item) ==
    /\ iter_last' = r.rest
    /\ iter_done' = r.done
    /\ iter_state' = IF item.status = "Panic" THEN "Panic"
                     ELSE IF r.item.some THEN "Iterating"
                     ELSE "Finished"
    /\ yielded' = IF item.status = "Returned" /\ r.item.some
                  THEN Append(yielded, item.val)
                  ELSE yielded

\* path_iter.next()
PathNext ==
    /\ iter_state \in {"Iterating", "Finished"}
    /\ PathNextWith(split_next(iter_last, iter_done),
                    iter_next_item(split_next(iter_last, iter_done)))
    /\ UNCHANGED <<segment_names, pass, first_pass, cigarVars, gafVars, otherVars>>

PathSpecNext == PathIter \/ PathNext

SpecPath == PathInit /\ [][PathSpecNext]_vars

---------------------------------------------------------------------------
(* The stored step string stated on the text itself *)

CommaPositions(s) == { i \in 1..Len(s) : s[i] = "," }

\* the number of comma-separated fragments of s
FragmentCount(s) == Cardinality(CommaPositions(s)) + 1

\* the position of the k-th ',' of s; 0 before the first fragment and one
\* past the end after the last
Boundary(s, k) ==
    IF k = 0 THEN 0
    ELSE IF k = FragmentCount(s) THEN Len(s) + 1
    ELSE CHOOSE i \in CommaPositions(s) :
            Cardinality({ j \in CommaPositions(s) : j <= i }) = k

\* the k-th fragment of s
Fragment(s, k) == SubSeq(s, Boundary(s, k - 1) + 1, Boundary(s, k) - 1)

\* f ends in an orientation
EndsInOrientation(f) == f # <<>> /\ f[Len(f)] \in {"+", "-"}

\* the pair a fragment that ends in an orientation denotes
ExpectedPair(f) ==
    << SubSeq(f, 1, Len(f) - 1),
       IF f[Len(f)] = "+" THEN "Forward" ELSE "Backward" >>

\* every fragment of s ends in an orientation
AllEndInOrientation(s) ==
    \A k \in 1..FragmentCount(s) : EndsInOrientation(Fragment(s, k))

---------------------------------------------------------------------------
(* Claims about Path::iter, under SpecPath *)

\* C9: Path::iter yields, for a stored step string of n comma-separated
\* fragments, exactly n (identity, orientation) pairs in fragment order,
\* the identity being the fragment without its last byte and the
\* orientation Forward for a trailing '+' and Backward for a trailing '-';
\* it yields None only after the n-th pair, and a second pass over the
\* same path yields the same sequence.
C9_IterYieldsFragments ==
    iter_state # "Idle" =>
        /\ Len(yielded) <= FragmentCount(segment_names)
        /\ \A k \in 1..Len(yielded) :
              yielded[k] = ExpectedPair(Fragment(segment_names, k))
        /\ AllEndInOrientation(segment_names) => iter_state # "Panic"
        /\ iter_state = "Finished" =>
              /\ Len(yielded) = FragmentCount(segment_names)
              /\ iter_last = <<>>
        /\ (pass = 2 /\ iter_state = "Finished"
                /\ first_pass.val.state = "Finished") =>
              yielded = first_pass.val.items

\* C9 witness: the second pass over a path of three fragments has yielded
\* three pairs, the second of them Backward with a one-byte identity, and
\* then None, as the first pass did
C9_Witness ==
    /\ pass = 2
    /\ iter_state = "Finished"
    /\ first_pass.val.state = "Finished"
    /\ FragmentCount(segment_names) = 3
    /\ Len(yielded) = 3
    /\ yielded[2] = << <<"2">>, "Backward" >>

\* C10: consuming a fragment that does not end in '+' or '-' is fatal,
\* the fragment is never skipped nor given an orientation, and the
\* failure is raised only when that fragment is consumed: the fragments
\* before it have been yielded.
C10_MalformedFragmentIsFatal ==
    /\ \A k \in 1..Len(yielded) :
          EndsInOrientation(Fragment(segment_names, k))
    /\ iter_state = "Finished" => AllEndInOrientation(segment_names)
    /\ iter_state = "Panic" =>
          /\ Len(yielded) < FragmentCount(segment_names)
          /\ ~EndsInOrientation(Fragment(segment_names, Len(yielded) + 1))
    /\ (iter_state = "Iterating" /\ Len(yielded) < FragmentCount(segment_names)
          /\ ~EndsInOrientation(Fragment(segment_names, Len(yielded) + 1))) =>
          iter_next_item(split_next(iter_last, iter_done)).status = "Panic"

\* C10 witness: the iterator has yielded the first step of a path and
\* failed on the second, which has an identity but no orientation
C10_Witness ==
    /\ iter_state = "Panic"
    /\ Len(yielded) = 1
    /\ Fragment(segment_names, 2) # <<>>
    /\ ~EndsInOrientation(Fragment(segment_names, 2))

---------------------------------------------------------------------------
(* gfa.rs: the GFA value, insert_line, usize_names and gfa_into_iter.  The  *)
(* optional fields of a record are a value of the type parameter T; the     *)
(* functions here only clone or move it, so it is kept as an opaque value.  *)

\* struct Header
Header(version, optional) == [version |-> version, optional |-> optional]

\* struct Segment
Segment(name, sequence, optional) ==
    [name |-> name, sequence |-> sequence, optional |-> optional]

\* struct Link
Link(from_segment, from_orient, to_segment, to_orient, overlap, optional) ==
    [from_segment |-> from_segment, from_orient |-> from_orient,
     to_segment |-> to_segment, to_orient |-> to_orient,
     overlap |-> overlap, optional |-> optional]

\* struct Containment
Containment(container_name, container_orient, contained_name, contained_orient, pos, overlap, optional) ==
    [container_name |-> container_name,
     container_orient |-> container_orient,
     contained_name |-> contained_name,
     contained_orient |-> contained_orient,
     pos |-> pos, overlap |-> overlap, optional |-> optional]

\* struct Path
Path(path_name, names, overlaps, optional) ==
    [path_name |-> path_name, segment_names |-> names,
     overlaps |-> overlaps, optional |-> optional]

\* enum Line: the variant and the record it wraps
Line(variant, record) == [variant |-> variant, record |-> record]

\* Header::default(): no version, T::default()
Header_default == Header(None, <<>>)

\* GFA::new(): Default::default()
GFA_new ==
    [header |-> Header_default, segments |-> <<>>, links |-> <<>>,
     containments |-> <<>>, paths |-> <<>>]

\* a plausible slip of insert_line: a segment already stored is not pushed
insert_line_dedup(g, line) ==
    CASE line.variant = "Header" -> [g EXCEPT !.header = line.record]
      [] line.variant = "Segment" ->
            IF \E i \in 1..Len(g.segments) : g.segments[i] = line.record
            THEN g
            ELSE [g EXCEPT !.segments = Append(@, line.record)]
      [] line.variant = "Link" ->
            [g EXCEPT !.links = Append(@, line.record)]
      [] line.variant = "Containment" ->
            [g EXCEPT !.containments = Append(@, line.record)]
      [] line.variant = "Path" ->
            [g EXCEPT !.paths = Append(@, line.record)]

\* GFA::insert_line
insert_line(g, line) ==
    CASE line.variant = "Header" -> [g EXCEPT !.header = line.record]
      [] line.variant = "Segment" ->
            [g EXCEPT !.segments = Append(@, line.record)]
      [] line.variant = "Link" ->
            [g EXCEPT !.links = Append(@, line.record)]
      [] line.variant = "Containment" ->
            [g EXCEPT !.containments = Append(@, line.record)]
      [] line.variant = "Path" ->
            [g EXCEPT !.paths = Append(@, line.record)]

\* parse_usize: from_utf8(bs).ok()?, then parse::<usize>().ok()
parse_usize(bs) == parse_utf8(from_utf8(bs), USIZE_MAX)

\* Segment::usize_name once parse_usize has run
segment_with_name(seg, ix) ==
    IF ~ix.some THEN None
    ELSE Some(Segment(ix.val, seg.sequence, seg.optional))

\* Segment::usize_name
Segment_usize_name(seg) == segment_with_name(seg, parse_usize(seg.name))

\* a plausible slip of Link::usize_name: the two orientations exchanged
link_with_names_swapped(link, from, to) ==
    IF ~from.some THEN None
    ELSE IF ~to.some THEN None
    ELSE Some(Link(from.val, link.to_orient, to.val, link.from_orient,
                   link.overlap, link.optional))

\* Link::usize_name once parse_usize has run on both ends
link_with_names(link, from, to) ==
    IF ~from.some THEN None
    ELSE IF ~to.some THEN None
    ELSE Some(Link(from.val, link.from_orient, to.val, link.to_orient,
                   link.overlap, link.optional))

\* Link::usize_name
Link_usize_name(link) ==
    link_with_names(link, parse_usize(link.from_segment),
                    parse_usize(link.to_segment))

\* Containment::usize_name once parse_usize has run on both names
containment_with_names(cont, container, contained) ==
    IF ~container.some THEN None
    ELSE IF ~contained.some THEN None
    ELSE Some(Containment(container.val, cont.container_orient,
                          contained.val, cont.contained_orient,
                          cont.pos, cont.overlap, cont.optional))

\* Containment::usize_name
Containment_usize_name(cont) ==
    containment_with_names(cont, parse_usize(cont.container_name),
                           parse_usize(cont.contained_name))

\* seg.iter().all(|b| b.is_ascii_digit())
all_ascii_digit(seg) == \A k \in 1..Len(seg) : seg[k] \in Digit

RECURSIVE usize_segments_from(_, _)
\* one turn of .all(..) over Path::iter: the iterator gave r, the step
\* parser item; all stops at the first step that is not all digits
usize_segments_turn(r, item) ==
    IF ~r.item.some THEN Returned(TRUE)
    ELSE IF item.status = "Panic" THEN Panic
    ELSE IF ~all_ascii_digit(item.val[1]) THEN Returned(FALSE)
    ELSE usize_segments_from(r.rest, r.done)

\* .all(..) over what the iterator of Path::iter still holds
usize_segments_from(rest, done) ==
    usize_segments_turn(split_next(rest, done),
                        iter_next_item(split_next(rest, done)))

\* Path::usize_segments
Path_usize_segments(path) == usize_segments_from(path.segment_names, FALSE)

RECURSIVE usize_names_paths(_, _)
\* one turn of the loop over self.paths: usize_segments gave ok
usize_names_path_turn(g, paths, ok) ==
    IF ok.status = "Panic" THEN Panic
    ELSE IF ~ok.val THEN Returned(None)
    ELSE usize_names_paths([g EXCEPT !.paths = Append(@, Head(paths))],
                           Tail(paths))

\* the loop over self.paths, then Some(gfa)
usize_names_paths(g, paths) ==
    IF paths = <<>> THEN Returned(Some(g))
    ELSE usize_names_path_turn(g, paths, Path_usize_segments(Head(paths)))

\* record.usize_name() for a record of the given kind
usize_name_of(kind, record) ==
    CASE kind = "Segment" -> Segment_usize_name(record)
      [] kind = "Link" -> Link_usize_name(record)
      [] kind = "Containment" -> Containment_usize_name(record)

\* each record of a list converted, as Options
usize_name_each(kind, records) ==
    [i \in 1..Len(records) |-> usize_name_of(kind, records[i])]

\* the converted records without their Some
unwrap_each(options) == [i \in 1..Len(options) |-> options[i].val]

\* some record of a list did not convert: `?` returns None
any_none(options) == \E i \in 1..Len(options) : ~options[i].some

\* GFA::usize_names once the segments, links and containments are converted
usize_names_with(self, segs, links, conts) ==
    IF any_none(segs) THEN Returned(None)
    ELSE IF any_none(links) THEN Returned(None)
    ELSE IF any_none(conts) THEN Returned(None)
    ELSE usize_names_paths([header |-> self.header,
                            segments |-> unwrap_each(segs),
                            links |-> unwrap_each(links),
                            containments |-> unwrap_each(conts),
                            paths |-> <<>>],
                           self.paths)

\* GFA::usize_names
GFA_usize_names(self) ==
    usize_names_with(self,
                     usize_name_each("Segment", self.segments),
                     usize_name_each("Link", self.links),
                     usize_name_each("Containment", self.containments))

\* each record of a list wrapped in its Line variant
map_line(variant, records) ==
    [i \in 1..Len(records) |-> Line(variant, records[i])]

\* gfa_into_iter: the four into_iter().map(..) iterators it chains
gfa_into_iter(g) ==
    [segs |-> map_line("Segment", g.segments),
     links |-> map_line("Link", g.links),
     conts |-> map_line("Containment", g.containments),
     paths |-> map_line("Path", g.paths)]

\* a plausible slip of the chain: containments before links
chain_next_conts_first(it) ==
    IF it.segs # <<>>
    THEN [item |-> Some(Head(it.segs)), it |-> [it EXCEPT !.segs = Tail(@)]]
    ELSE IF it.conts # <<>>
    THEN [item |-> Some(Head(it.conts)), it |-> [it EXCEPT !.conts = Tail(@)]]
    ELSE IF it.links # <<>>
    THEN [item |-> Some(Head(it.links)), it |-> [it EXCEPT !.links = Tail(@)]]
    ELSE IF it.paths # <<>>
    THEN [item |-> Some(Head(it.paths)), it |-> [it EXCEPT !.paths = Tail(@)]]
    ELSE [item |-> None, it |-> it]

\* next() of segs.chain(links).chain(conts).chain(paths)
chain_next(it) ==
    IF it.segs # <<>>
    THEN [item |-> Some(Head(it.segs)), it |-> [it EXCEPT !.segs = Tail(@)]]
    ELSE IF it.links # <<>>
    THEN [item |-> Some(Head(it.links)), it |-> [it EXCEPT !.links = Tail(@)]]
    ELSE IF it.conts # <<>>
    THEN [item |-> Some(Head(it.conts)), it |-> [it EXCEPT !.conts = Tail(@)]]
    ELSE IF it.paths # <<>>
    THEN [item |-> Some(Head(it.paths)), it |-> [it EXCEPT !.paths = Tail(@)]]
    ELSE [item |-> None, it |-> it]

\* the headers, segments, links, containments and paths a graph is built of
GraphHeaders ==
    { Header(Some(<<"1", ".", "0">>), <<>>), Header(None, <<TagColumn>>) }

GraphSegments ==
    { Segment(<<"1">>, <<"A", "C">>, <<TagColumn>>),
      Segment(<<"1", "2">>, <<"*">>, <<>>),
      Segment(<<"0", "5">>, <<"G">>, <<>>),
      Segment(<<"a">>, <<"A", "C">>, <<>>) }

GraphLinks ==
    { Link(<<"1">>, "Forward", <<"1", "2">>, "Backward", <<"4", "M">>, <<>>),
      Link(<<"1">>, "Backward", <<"a">>, "Forward", <<"*">>, <<>>) }

GraphContainments ==
    { Containment(<<"1">>, "Forward", <<"1", "2">>, "Backward", <<3>>,
                  <<"2", "M">>, <<TagColumn>>),
      Containment(<<"a">>, "Forward", <<"1">>, "Forward", <<0>>,
                  <<"*">>, <<>>) }

\* step strings: two integer steps; a step that is no integer; a step with
\* no identity; a step with no orientation; an identity past usize::MAX
GraphStepStrings ==
    { <<"1", "+", ",", "1", "2", "-">>, <<"a", "+">>, <<"+">>, <<"1">>,
      UsizeOverflowDigits \o <<"-">> }

GraphPaths ==
    { Path(<<"p">>, names, << <<"4", "M">> >>, <<>>) :
        names \in GraphStepStrings }

GraphLines ==
    { Line("Header", h) : h \in GraphHeaders }
    \cup { Line("Segment", r) : r \in GraphSegments }
    \cup { Line("Link", r) : r \in GraphLinks }
    \cup { Line("Containment", r) : r \in GraphContainments }
    \cup { Line("Path", r) : r \in GraphPaths }

MaxLines == 3

GraphInit ==
    /\ gfa = GFA_new
    /\ inserted = <<>>
    /\ names_res = NotCalled
    /\ lines_state = "Idle"
    /\ lines_left = <<>>
    /\ produced = <<>>
    /\ CigarIdle
    /\ GafIdle
    /\ PathIdle
    /\ ErrorIdle
    /\ ParserIdle

\* gfa.insert_line(line)
InsertLine ==
    /\ Len(inserted) < MaxLines
    /\ names_res = NotCalled
    /\ lines_state = "Idle"
    /\ \E line \in GraphLines :
         /\ gfa' = insert_line(gfa, line)
         /\ inserted' = Append(inserted, line)
    /\ UNCHANGED <<names_res, lines_state, lines_left, produced>>
    /\ UNCHANGED <<cigarVars, gafVars, pathVars, errVars, drvVars, psrVars>>

\* gfa.usize_names()
CallUsizeNames ==
    /\ names_res = NotCalled
    /\ lines_state = "Idle"
    /\ names_res' = GFA_usize_names(gfa)
    /\ UNCHANGED <<gfa, inserted, lines_state, lines_left, produced>>
    /\ UNCHANGED <<cigarVars, gafVars, pathVars, errVars, drvVars, psrVars>>

\* gfa_into_iter(gfa): the graph is moved into the iterator; gfa keeps the
\* value that was handed over
CallGfaIntoIter ==
    /\ lines_state = "Idle"
    /\ lines_state' = "Iterating"
    /\ lines_left' = gfa_into_iter(gfa)
    /\ produced' = <<>>
    /\ UNCHANGED <<gfa, inserted, names_res>>
    /\ UNCHANGED <<cigarVars, gafVars, pathVars, errVars, drvVars, psrVars>>

\* the outcome of next() on the chained iterator
LinesNextWith(r) ==
    /\ lines_left' = r.it
    /\ lines_state' = IF r.item.some THEN "Iterating" ELSE "Finished"
    /\ produced' = IF r.item.some THEN Append(produced, r.item.val)
                   ELSE produced

\* next() on the iterator gfa_into_iter returned
LinesNext ==
    /\ lines_state \in {"Iterating", "Finished"}
    /\ LinesNextWith(chain_next(lines_left))
    /\ UNCHANGED <<gfa, inserted, names_res>>
    /\ UNCHANGED <<cigarVars, gafVars, pathVars, errVars, drvVars, psrVars>>

GraphNext == InsertLine \/ CallUsizeNames \/ CallGfaIntoIter \/ LinesNext

SpecGraph == GraphInit /\ [][GraphNext]_vars

---------------------------------------------------------------------------
(* The identities of a graph stated on the stored text *)

\* id is the text of a usize: what str::parse::<usize> accepts
ParsesAsUsize(id) == UnsignedText(id, USIZE_MAX)

\* id is a plain decimal integer that fits a usize
IntegerText(id) ==
    /\ id # <<>>
    /\ \A k \in 1..Len(id) : id[k] \in Digit
    /\ ~Lt10(USIZE_MAX, DecimalValue(id))

\* the identity of a path step: the fragment without its last byte
StepIdentity(f) == SubSeq(f, 1, Len(f) - 1)

\* the identities of the steps of a stored step string
StepIdentities(names) ==
    { StepIdentity(Fragment(names, k)) : k \in 1..FragmentCount(names) }

\* every identity a graph holds
Identities(g) ==
    { g.segments[i].name : i \in 1..Len(g.segments) }
    \cup { g.links[i].from_segment : i \in 1..Len(g.links) }
    \cup { g.links[i].to_segment : i \in 1..Len(g.links) }
    \cup { g.containments[i].container_name : i \in 1..Len(g.containments) }
    \cup { g.containments[i].contained_name : i \in 1..Len(g.containments) }
    \cup UNION { StepIdentities(g.paths[i].segment_names) :
                    i \in 1..Len(g.paths) }

\* every identity of g is an integer and every path step has an orientation
AllIntegerIdentities(g) ==
    /\ \A id \in Identities(g) : IntegerText(id)
    /\ \A i \in 1..Len(g.paths) : AllEndInOrientation(g.paths[i].segment_names)

\* the records of the lines of one variant, in the order of the lines
RecordsOf(lines, variant) ==
    LET kept == SelectSeq(lines, LAMBDA l : l.variant = variant)
    IN  [i \in 1..Len(kept) |-> kept[i].record]

\* the lines a graph holds, by kind and then in stored order; no header
LinesOf(g) ==
    [i \in 1..Len(g.segments) |-> Line("Segment", g.segments[i])]
    \o [i \in 1..Len(g.links) |-> Line("Link", g.links[i])]
    \o [i \in 1..Len(g.containments) |->
            Line("Containment", g.containments[i])]
    \o [i \in 1..Len(g.paths) |-> Line("Path", g.paths[i])]

---------------------------------------------------------------------------
(* Claims about the GFA value, under SpecGraph *)

\* C11 as stated: GFA::usize_names returns None if any segment name, link
\* endpoint, containment endpoint or path step identity of the graph cannot
\* be parsed into a usize, and otherwise returns a complete graph; it never
\* returns a partial graph.
C11_AllOrNothing ==
    names_res # NotCalled =>
        /\ names_res.status = "Returned"
        /\ (\E id \in Identities(gfa) : ~ParsesAsUsize(id)) =>
              names_res = Returned(None)
        /\ names_res.val.some =>
              /\ Len(names_res.val.val.segments) = Len(gfa.segments)
              /\ Len(names_res.val.val.links) = Len(gfa.links)
              /\ Len(names_res.val.val.containments) = Len(gfa.containments)
              /\ Len(names_res.val.val.paths) = Len(gfa.paths)
        /\ (\A id \in Identities(gfa) : ParsesAsUsize(id)) =>
              names_res.val.some

\* C12: projecting a graph whose identities are all integers yields the
\* same header, the same number of records of each kind in the same order,
\* the same identities as numbers, and every other field unchanged.
C12_ProjectionOfIntegerGraph ==
    (names_res # NotCalled /\ AllIntegerIdentities(gfa)) =>
        /\ names_res.status = "Returned"
        /\ names_res.val.some
        /\ LET g == names_res.val.val
           IN  /\ g.header = gfa.header
               /\ Len(g.segments) = Len(gfa.segments)
               /\ \A i \in 1..Len(gfa.segments) :
                     g.segments[i] =
                        [gfa.segments[i] EXCEPT !.name = DecimalValue(@)]
               /\ Len(g.links) = Len(gfa.links)
               /\ \A i \in 1..Len(gfa.links) :
                     g.links[i] =
                        [gfa.links[i] EXCEPT
                            !.from_segment = DecimalValue(@),
                            !.to_segment = DecimalValue(@)]
               /\ Len(g.containments) = Len(gfa.containments)
               /\ \A i \in 1..Len(gfa.containments) :
                     g.containments[i] =
                        [gfa.containments[i] EXCEPT
                            !.container_name = DecimalValue(@),
                            !.contained_name = DecimalValue(@)]
               /\ g.paths = gfa.paths

\* C12 witness: usize_names returned a graph for a segment, a link whose
\* two orientations differ and a path, all with integer identities
C12_Witness ==
    /\ names_res.status = "Returned"
    /\ names_res.val.some
    /\ AllIntegerIdentities(gfa)
    /\ Len(gfa.segments) = 1
    /\ Len(gfa.links) = 1
    /\ gfa.links[1].from_orient # gfa.links[1].to_orient
    /\ Len(gfa.paths) = 1

\* C13: after any sequence of insert_line calls on an empty graph, each of
\* segments, links, containments and paths is the subsequence of inserted
\* lines of that kind in insertion order with duplicates kept, and the
\* header is the last inserted Header line, or the default.
C13_InsertionOrderPerKind ==
    /\ gfa.segments = RecordsOf(inserted, "Segment")
    /\ gfa.links = RecordsOf(inserted, "Link")
    /\ gfa.containments = RecordsOf(inserted, "Containment")
    /\ gfa.paths = RecordsOf(inserted, "Path")
    /\ gfa.header =
          (IF RecordsOf(inserted, "Header") = <<>> THEN Header_default
           ELSE RecordsOf(inserted, "Header")[
                    Len(RecordsOf(inserted, "Header"))])

\* C13 witness: the same segment was inserted twice with a link between,
\* and the graph holds it twice
C13_Witness ==
    /\ Len(inserted) = 3
    /\ inserted[1].variant = "Segment"
    /\ inserted[2].variant = "Link"
    /\ inserted[3] = inserted[1]
    /\ Len(gfa.segments) = 2
    /\ Len(gfa.links) = 1

\* C14: gfa_into_iter produces every segment, link, containment and path of
\* the graph exactly once, segments first, then links, then containments,
\* then paths, each group in stored order, and never the header.
C14_LinesByKindInOrder ==
    lines_state # "Idle" =>
        /\ Len(produced) <= Len(LinesOf(gfa))
        /\ produced = SubSeq(LinesOf(gfa), 1, Len(produced))
        /\ lines_state = "Finished" => produced = LinesOf(gfa)
        /\ \A i \in 1..Len(produced) : produced[i].variant # "Header"

\* C14 witness: a path, a containment and a link were inserted in that
\* order after a header, and the iterator has produced all three lines
C14_Witness ==
    /\ lines_state = "Finished"
    /\ Len(inserted) = 3
    /\ inserted[1].variant = "Path"
    /\ inserted[2].variant = "Containment"
    /\ inserted[3].variant = "Link"
    /\ Len(produced) = 3

---------------------------------------------------------------------------
(* parser/error.rs: ParseError and its two recoverability methods *)

\* enum ParseFieldError: the variants without a payload
FieldErrorUnit ==
    { "UintIdError", "Utf8Error", "ParseFromStringError", "OrientationError",
      "MissingFields", "Unknown" }

\* ParseFieldError::InvalidField(name)
FieldErrorInvalidField(name) == [kind |-> "InvalidField", field |-> name]

\* ParseError: the variants without a payload
ParseError_UnknownLineType == [kind |-> "UnknownLineType"]

ParseError_EmptyLine == [kind |-> "EmptyLine"]

ParseError_Unknown == [kind |-> "Unknown"]

\* ParseError::InvalidLine(error, line)
ParseError_InvalidLine(error, line) ==
    [kind |-> "InvalidLine", error |-> error, line |-> line]

\* ParseError::InvalidField(error)
ParseError_InvalidField(error) == [kind |-> "InvalidField", error |-> error]

\* ParseError::IOError(err), err given by its io::ErrorKind
ParseError_IOError(io_kind) == [kind |-> "IOError", io |-> io_kind]

\* Result<(), ParseError>
ResultOk == [status |-> "Ok"]

ResultErr(e) == [status |-> "Err", err |-> e]

\* a plausible slip: a malformed field counted as safe to skip
can_safely_continue_lenient(self) ==
    CASE self.kind = "EmptyLine" -> TRUE
      [] self.kind = "UnknownLineType" -> TRUE
      [] self.kind = "InvalidField" -> TRUE
      [] OTHER -> FALSE

\* ParseError::can_safely_continue
can_safely_continue(self) ==
    CASE self.kind = "EmptyLine" -> TRUE
      [] self.kind = "UnknownLineType" -> TRUE
      [] OTHER -> FALSE

\* ParseError::break_if_necessary
break_if_necessary(self) ==
    IF can_safely_continue(self) THEN ResultOk ELSE ResultErr(self)

\* ParseFieldError values
FieldErrors ==
    { [kind |-> k] : k \in FieldErrorUnit }
    \cup { FieldErrorInvalidField(name) :
             name \in {"name", "sequence", "overlap", "pos"} }

\* the lines an InvalidLine error may carry
ErrorLines == { <<"S">>, <<"L", "\t", "1">>, <<"C", "\t", "x">> }

\* ParseError values
ParseErrors ==
    { ParseError_UnknownLineType, ParseError_EmptyLine, ParseError_Unknown }
    \cup { ParseError_InvalidField(e) : e \in FieldErrors }
    \cup { ParseError_InvalidLine(e, l) : e \in FieldErrors, l \in ErrorLines }
    \cup { ParseError_IOError(k) :
             k \in {"NotFound", "UnexpectedEof", "InvalidData"} }

ErrorInit ==
    /\ err_in \in ParseErrors
    /\ err_call = "none"
    /\ err_res = NotCalled
    /\ CigarIdle
    /\ GafIdle
    /\ PathIdle
    /\ GraphIdle
    /\ ParserIdle

\* err.can_safely_continue()
CallCanSafelyContinue ==
    /\ err_call = "none"
    /\ err_call' = "can_safely_continue"
    /\ err_res' = Returned(can_safely_continue(err_in))
    /\ UNCHANGED <<err_in, cigarVars, gafVars, pathVars, graphVars>>
    /\ UNCHANGED <<drvVars, psrVars>>

\* err.break_if_necessary()
CallBreakIfNecessary ==
    /\ err_call = "none"
    /\ err_call' = "break_if_necessary"
    /\ err_res' = break_if_necessary(err_in)
    /\ UNCHANGED <<err_in, cigarVars, gafVars, pathVars, graphVars>>
    /\ UNCHANGED <<drvVars, psrVars>>

ErrorNext == CallCanSafelyContinue \/ CallBreakIfNecessary

SpecError == ErrorInit /\ [][ErrorNext]_vars

\* the two kinds the specification calls recoverable
RecoverableKinds == {"EmptyLine", "UnknownLineType"}

\* C15: can_safely_continue is true for EmptyLine and UnknownLineType and
\* false for every other kind; break_if_necessary returns Ok(()) exactly
\* for those two kinds and otherwise Err carrying the same error.
C15_TwoRecoverableKinds ==
    /\ err_call = "can_safely_continue" =>
          err_res = Returned(err_in.kind \in RecoverableKinds)
    /\ err_call = "break_if_necessary" =>
          /\ err_in.kind \in RecoverableKinds => err_res = ResultOk
          /\ err_in.kind \notin RecoverableKinds =>
                err_res = ResultErr(err_in)

\* C15 witness: break_if_necessary was called on an InvalidField error and
\* returned Err with it
C15_Witness ==
    /\ err_call = "break_if_necessary"
    /\ err_in.kind = "InvalidField"
    /\ err_res.status = "Err"
    /\ err_res.err = err_in

---------------------------------------------------------------------------
(* parser.rs: the line parser over text.  A &str is a sequence of one-      *)
(* character strings, all ASCII, so a byte index is a character index.      *)

Upper ==
    { "A", "B", "C", "D", "E", "F", "G", "H", "I", "J", "K", "L", "M",
      "N", "O", "P", "Q", "R", "S", "T", "U", "V", "W", "X", "Y", "Z" }

Lower ==
    { "a", "b", "c", "d", "e", "f", "g", "h", "i", "j", "k", "l", "m",
      "n", "o", "p", "q", "r", "s", "t", "u", "v", "w", "x", "y", "z" }

\* "0x60" stands for the grave accent
Punctuation ==
    { "!", "\"", "#", "$", "%", "&", "'", "(", ")", "*", "+", ",", "-",
      ".", "/", ":", ";", "<", "=", ">", "?", "@", "[", "\\", "]", "^",
      "_", "0x60", "{", "|", "}", "~" }

\* the class [!-~]
Graphic == Upper \cup Lower \cup Digit \cup Punctuation

\* the class [ !-~]
GraphicOrSpace == Graphic \cup {" "}

\* the class [!-)+-<>-~]
NameFirst == Graphic \ {"*", "="}

\* the class [A-Za-z=.]
SequenceChar == Upper \cup Lower \cup {"=", "."}

\* the class [0-9A-F]
HexChar == Digit \cup {"A", "B", "C", "D", "E", "F"}

\* the class [AifZJHB]
FieldTypeChar == {"A", "i", "f", "Z", "J", "H", "B"}

\* Regex::find for a pattern [first][rest]*: the leftmost byte in first and
\* the longest run of bytes in rest after it
find_run(input, first, rest) ==
    IF PrefixLenNot(input, first) = Len(input) THEN None
    ELSE Some(SubSeq(input, PrefixLenNot(input, first) + 1,
                     PrefixLenNot(input, first) + 1
                        + PrefixLen(Drop(input, PrefixLenNot(input, first) + 1),
                                    rest)))

\* str::split_terminator(sep): the pieces between separators; an empty
\* last piece is not produced
RECURSIVE split_terminator(_, _)
split_terminator(input, sep) ==
    IF input = <<>> THEN <<>>
    ELSE IF PrefixLenNot(input, {sep}) = Len(input) THEN <<input>>
    ELSE <<Take(input, PrefixLenNot(input, {sep}))>>
         \o split_terminator(Drop(input, PrefixLenNot(input, {sep}) + 1), sep)

\* i64::MAX = 9223372036854775807
I64_MAX == <<9, 2, 2, 3, 3, 7, 2, 0, 3, 6, 8, 5, 4, 7, 7, 5, 8, 0, 7>>

\* the magnitude of i64::MIN = 9223372036854775808
I64_MIN_MAGNITUDE == <<9, 2, 2, 3, 3, 7, 2, 0, 3, 6, 8, 5, 4, 7, 7, 5, 8, 0, 8>>

\* an i64: its sign and its magnitude as a canonical decimal
I64(negative, magnitude) ==
    [negative |-> negative /\ magnitude # Zero10, magnitude |-> magnitude]

\* the end of str::parse::<i64>: the digits read with the sign's bound
i64_of(negative, magnitude) ==
    IF magnitude.some THEN Some(I64(negative, magnitude.val)) ELSE None

\* str::parse::<i64>().ok(): an optional sign, then digits; empty, a lone
\* sign, a non-digit or an overflow is an error
str_parse_i64(src) ==
    IF src = <<>> THEN None
    ELSE IF src = <<"+">> \/ src = <<"-">> THEN None
    ELSE IF Head(src) = "-"
         THEN i64_of(TRUE, from_str_digits(Tail(src), Zero10,
                                           I64_MIN_MAGNITUDE))
    ELSE IF Head(src) = "+"
         THEN i64_of(FALSE, from_str_digits(Tail(src), Zero10, I64_MAX))
    ELSE i64_of(FALSE, from_str_digits(src, Zero10, I64_MAX))

\* the text from position p on is digits, or a sign and digits
int_starts_at(input, p) ==
    \/ input[p] \in Digit
    \/ /\ input[p] \in {"-", "+"}
       /\ p < Len(input)
       /\ input[p + 1] \in Digit

\* the leftmost match of [-+]?[0-9]+ that starts at p
int_match_at(input, p) ==
    IF input[p] \in Digit
    THEN SubSeq(input, p, p - 1 + PrefixLen(Drop(input, p - 1), Digit))
    ELSE SubSeq(input, p, p + PrefixLen(Drop(input, p), Digit))

\* Regex::find for [-+]?[0-9]+
find_int(input) ==
    IF \E p \in 1..Len(input) : int_starts_at(input, p)
    THEN Some(int_match_at(input,
                CHOOSE p \in 1..Len(input) :
                    /\ int_starts_at(input, p)
                    /\ \A q \in 1..(p - 1) : ~int_starts_at(input, q)))
    ELSE None

\* the number of digits of input from position q on
digits_from(input, q) == PrefixLen(Drop(input, q - 1), Digit)

\* [0-9]*\.?[0-9]+ matched from position q: the position of its last byte,
\* 0 if it does not match; n is the number of digits at q
float_mantissa_end(input, q, n) ==
    IF q + n <= Len(input) /\ input[q + n] = "."
          /\ digits_from(input, q + n + 1) >= 1
    THEN q + n + digits_from(input, q + n + 1)
    ELSE IF n >= 1 THEN q + n - 1
    ELSE 0

\* ([eE][-+]?[0-9]+)? matched after position e: the position of the last
\* byte of the whole match
float_exponent_end(input, e) ==
    IF e + 1 <= Len(input) /\ input[e + 1] \in {"e", "E"}
    THEN IF e + 2 <= Len(input) /\ input[e + 2] \in {"-", "+"}
         THEN IF digits_from(input, e + 3) >= 1
              THEN e + 2 + digits_from(input, e + 3)
              ELSE e
         ELSE IF digits_from(input, e + 2) >= 1
              THEN e + 1 + digits_from(input, e + 2)
              ELSE e
    ELSE e

\* the float pattern matched at position p: the position of the last byte
\* of the mantissa, 0 if the pattern does not match at p
float_end_at(input, p) ==
    IF input[p] \in {"-", "+"}
    THEN float_mantissa_end(input, p + 1, digits_from(input, p + 1))
    ELSE float_mantissa_end(input, p, digits_from(input, p))

\* the leftmost position the float pattern matches at, 0 if none
float_start(input) ==
    IF \E p \in 1..Len(input) : float_end_at(input, p) # 0
    THEN CHOOSE p \in 1..Len(input) :
            /\ float_end_at(input, p) # 0
            /\ \A q \in 1..(p - 1) : float_end_at(input, q) = 0
    ELSE 0

\* Regex::find for [-+]?[0-9]*\.?[0-9]+([eE][-+]?[0-9]+)?
find_float(input) ==
    IF float_start(input) = 0 THEN None
    ELSE Some(SubSeq(input, float_start(input),
                     float_exponent_end(input,
                        float_end_at(input, float_start(input)))))

\* an f32, kept as the decimal text it was read from
F32(text) == [decimal |-> text]

\* a letter of "infinity" or "nan" in lower case
fold_case(c) ==
    CASE c = "I" -> "i" [] c = "N" -> "n" [] c = "F" -> "f" [] c = "T" -> "t"
      [] c = "Y" -> "y" [] c = "A" -> "a" [] OTHER -> c

\* the text, its sign removed, is a decimal number with an optional exponent
decimal_float_text(t) ==
    /\ t # <<>>
    /\ \/ digits_from(t, 1) >= 1
       \/ /\ t[1] = "."
          /\ digits_from(t, 2) >= 1
    /\ LET n == digits_from(t, 1)
           m == IF n < Len(t) /\ t[n + 1] = "."
                THEN n + 1 + digits_from(t, n + 2)
                ELSE n
       IN  \/ m = Len(t)
           \/ /\ t[m + 1] \in {"e", "E"}
              /\ float_exponent_end(t, m) = Len(t)

\* str::parse::<f32>().ok(): an optional sign, then inf, infinity, nan in
\* any case, or a decimal number with an optional exponent
str_parse_f32(src) ==
    LET t == IF src # <<>> /\ Head(src) \in {"+", "-"} THEN Tail(src) ELSE src
    IN  IF [i \in 1..Len(t) |-> fold_case(t[i])]
              \in { <<"i", "n", "f">>,
                    <<"i", "n", "f", "i", "n", "i", "t", "y">>,
                    <<"n", "a", "n">> }
        THEN Some(F32(src))
        ELSE IF decimal_float_text(t) THEN Some(F32(src))
        ELSE None

\* enum OptionalFieldValue, as parse_optional_field builds it
OptionalFieldValue(variant, value) == [variant |-> variant, value |-> value]

\* Option::map(Variant)
map_variant(variant, opt) ==
    IF opt.some THEN Some(OptionalFieldValue(variant, opt.val)) ELSE None

\* parse_optional_tag: [A-Za-z][A-Za-z0-9] found in the two bytes given
parse_optional_tag(input) ==
    IF Len(input) = 2 /\ input[1] \in Upper \cup Lower
          /\ input[2] \in Upper \cup Lower \cup Digit
    THEN Some(input)
    ELSE None

\* parse_optional_char: the first byte of the payload in [!-~]
parse_optional_char(input) ==
    IF PrefixLenNot(input, Graphic) = Len(input) THEN None
    ELSE Some(input[PrefixLenNot(input, Graphic) + 1])

\* .and_then(|s| s.as_str().parse().ok()) on a match, for i64
and_then_parse_i64(found) ==
    IF found.some THEN str_parse_i64(found.val) ELSE None

\* parse_optional_int: the first match of [-+]?[0-9]+ in the payload,
\* parsed as an i64
parse_optional_int(input) == and_then_parse_i64(find_int(input))

\* .and_then(|s| s.as_str().parse().ok()) on a match, for f32
and_then_parse_f32(found) ==
    IF found.some THEN str_parse_f32(found.val) ELSE None

\* parse_optional_float: the first match of the float pattern, parsed
parse_optional_float(input) == and_then_parse_f32(find_float(input))

\* parse_optional_string: the first run of bytes in [ !-~]
parse_optional_string(input) ==
    find_run(input, GraphicOrSpace, GraphicOrSpace)

\* char::to_digit(16) on a byte of [0-9A-F]
HexVal(c) ==
    CASE c = "A" -> 10 [] c = "B" -> 11 [] c = "C" -> 12 [] c = "D" -> 13
      [] c = "E" -> 14 [] c = "F" -> 15 [] OTHER -> DigitVal[c]

\* .map(|s| s.chars().filter_map(|c| c.to_digit(16)).collect())
map_hex_digits(found) ==
    IF found.some
    THEN Some([i \in 1..Len(found.val) |-> HexVal(found.val[i])])
    ELSE None

\* parse_optional_bytearray: the first run of [0-9A-F], one value per digit
parse_optional_bytearray(input) ==
    map_hex_digits(find_run(input, HexChar, HexChar))

\* the element parser of an integer array; the element type is declared
\* with OptionalFieldValue, and is taken to be i64
parse_int_element(text) == str_parse_i64(text)

\* .collect::<Option<Vec<_>>>(): None if any element is None
collect_options(elements) ==
    IF \E i \in 1..Len(elements) : ~elements[i].some THEN None
    ELSE Some([i \in 1..Len(elements) |-> elements[i].val])

\* f.parse::<T>().ok() for the element type T of the array
parse_element(T, text) ==
    IF T = "f32" THEN str_parse_f32(text) ELSE parse_int_element(text)

\* parse_optional_array::<T>: each piece between commas parsed as a T
parse_optional_array(T, input) ==
    collect_options([i \in 1..Len(split_terminator(input, ",")) |->
                        parse_element(T, split_terminator(input, ",")[i])])

\* the "B" arm of parse_optional_field: the first byte of the payload is
\* the element type, and slicing it off fails on an empty payload
parse_optional_array_field(contents) ==
    IF contents = <<>> THEN Panic
    ELSE IF Head(contents) = "f"
    THEN Returned(map_variant("FloatArray",
            parse_optional_array("f32", Tail(contents))))
    ELSE Returned(map_variant("IntArray",
            parse_optional_array("i64", Tail(contents))))

\* the match on field_type in parse_optional_field
parse_optional_value(field_type, contents) ==
    CASE field_type = "A" ->
            Returned(map_variant("PrintableChar",
                                 parse_optional_char(contents)))
      [] field_type = "i" ->
            Returned(map_variant("SignedInt", parse_optional_int(contents)))
      [] field_type = "f" ->
            Returned(map_variant("Float", parse_optional_float(contents)))
      [] field_type = "Z" ->
            Returned(map_variant("PrintableString",
                                 parse_optional_string(contents)))
      [] field_type = "J" ->
            Returned(map_variant("JSON", parse_optional_string(contents)))
      [] field_type = "H" ->
            Returned(map_variant("ByteArray",
                                 parse_optional_bytearray(contents)))
      [] field_type = "B" -> parse_optional_array_field(contents)
      [] OTHER -> Panic

\* struct OptionalField
OptionalField(tag, content) == [tag |-> tag, content |-> content]

\* the end of parse_optional_field: `?` on the value, then the field
optional_field_of(tag, value) ==
    IF value.status = "Panic" THEN Panic
    ELSE IF ~value.val.some THEN Returned(None)
    ELSE Returned(Some(OptionalField(tag, value.val.val)))

\* parse_optional_field: the type is byte 3, the tag bytes 0 and 1, the
\* payload everything from byte 5; a slice past the end of the text fails
parse_optional_field(input) ==
    IF Len(input) < 4 THEN Panic
    ELSE IF input[4] \notin FieldTypeChar THEN Returned(None)
    ELSE IF ~parse_optional_tag(Take(input, 2)).some THEN Returned(None)
    ELSE IF Len(input) < 5 THEN Panic
    ELSE optional_field_of(Take(input, 2),
                           parse_optional_value(input[4], Drop(input, 5)))

\* the optional fields of a record: filter_map(parse_optional_field) over
\* the trailing columns; results holds what each column gave
collect_fields(results) ==
    IF \E i \in 1..Len(results) : results[i].status = "Panic" THEN Panic
    ELSE Returned([i \in 1..Len(SelectSeq(results, LAMBDA r : r.val.some))
                     |-> SelectSeq(results, LAMBDA r : r.val.some)[i].val.val])

\* fields[n..].filter_map(parse_optional_field).collect()
parse_optional_fields(fields, n) ==
    collect_fields([i \in 1..(Len(fields) - n) |->
                       parse_optional_field(fields[n + i])])

\* as position_of_tag, but the last field with the given tag
position_of_last_tag(opts, tag) ==
    IF \E i \in 1..Len(opts) : opts[i].tag = tag
    THEN CHOOSE i \in 1..Len(opts) :
            /\ opts[i].tag = tag
            /\ \A j \in (i + 1)..Len(opts) : opts[j].tag # tag
    ELSE 0

\* the position of the first field with the given tag, 0 if none
position_of_tag(opts, tag) ==
    IF \E i \in 1..Len(opts) : opts[i].tag = tag
    THEN CHOOSE i \in 1..Len(opts) :
            /\ opts[i].tag = tag
            /\ \A j \in 1..(i - 1) : opts[j].tag # tag
    ELSE 0

\* opts after drain_optional_field(opts, tag): the first field with that
\* tag removed
drained(opts, tag) ==
    IF position_of_tag(opts, tag) = 0 THEN opts
    ELSE SubSeq(opts, 1, position_of_tag(opts, tag) - 1)
         \o SubSeq(opts, position_of_tag(opts, tag) + 1, Len(opts))

\* drain_optional_field: the first field with that tag, if any
drain_optional_field(opts, tag) ==
    IF position_of_tag(opts, tag) = 0 THEN None
    ELSE Some(opts[position_of_tag(opts, tag)])

\* optional_field!(opts, tag, Variant): the content of the drained field
\* if it is of that variant
optional_field(opts, tag, variant) ==
    IF ~drain_optional_field(opts, tag).some THEN None
    ELSE IF drain_optional_field(opts, tag).val.content.variant = variant
    THEN Some(drain_optional_field(opts, tag).val.content.value)
    ELSE None

\* opts after the fields with the given tags were drained, in that order
RECURSIVE drained_all(_, _)
drained_all(opts, tags) ==
    IF tags = <<>> THEN opts
    ELSE drained_all(drained(opts, Head(tags)), Tail(tags))

\* the two-byte tags as text
Tag(a, b) == <<a, b>>

\* parse_header once parse_optional_field has run: the version is the
\* content of the field if it is a PrintableString
header_of(field) ==
    IF field.status = "Panic" THEN Panic
    ELSE IF field.val.some
            /\ field.val.val.content.variant = "PrintableString"
    THEN Returned(Some([version |-> Some(field.val.val.content.value)]))
    ELSE Returned(Some([version |-> None]))

\* parse_header
parse_header(input) == header_of(parse_optional_field(input))

\* parse_orient: alt((tag("+"), tag("-"))) on the start of the column
parse_orient(input) ==
    IF input = <<>> THEN None
    ELSE IF Head(input) = "+" THEN Some("Forward")
    ELSE IF Head(input) = "-" THEN Some("Backward")
    ELSE None

\* parse_name: the first match of [!-)+-<>-~][!-~]*
parse_name(input) == find_run(input, NameFirst, Graphic)

\* parse_sequence: the first match of \*|[A-Za-z=.]+
parse_sequence(input) ==
    IF PrefixLenNot(input, SequenceChar \cup {"*"}) = Len(input) THEN None
    ELSE IF input[PrefixLenNot(input, SequenceChar \cup {"*"}) + 1] = "*"
    THEN Some(<<"*">>)
    ELSE find_run(input, SequenceChar, SequenceChar)

\* the record parse_segment builds from the optional fields
segment_record(name, sequence, opts) ==
    IF opts.status = "Panic" THEN Panic
    ELSE Returned(Some(
        [name |-> name, sequence |-> sequence,
         segment_length |->
            optional_field(opts.val, Tag("L", "N"), "SignedInt"),
         read_count |->
            optional_field(drained_all(opts.val, <<Tag("L", "N")>>),
                           Tag("R", "C"), "SignedInt"),
         fragment_count |->
            optional_field(drained_all(opts.val,
                              <<Tag("L", "N"), Tag("R", "C")>>),
                           Tag("F", "C"), "SignedInt"),
         kmer_count |->
            optional_field(drained_all(opts.val,
                              <<Tag("L", "N"), Tag("R", "C"),
                                Tag("F", "C")>>),
                           Tag("K", "C"), "SignedInt"),
         sha256 |->
            optional_field(drained_all(opts.val,
                              <<Tag("L", "N"), Tag("R", "C"),
                                Tag("F", "C"), Tag("K", "C")>>),
                           Tag("S", "H"), "ByteArray"),
         uri |->
            optional_field(drained_all(opts.val,
                              <<Tag("L", "N"), Tag("R", "C"),
                                Tag("F", "C"), Tag("K", "C"),
                                Tag("S", "H")>>),
                           Tag("U", "R"), "PrintableString"),
         optional_fields |->
            drained_all(opts.val,
                        <<Tag("L", "N"), Tag("R", "C"), Tag("F", "C"),
                          Tag("K", "C"), Tag("S", "H"), Tag("U", "R")>>)]))

\* parse_segment on the columns: fields[0] and fields[1] are indexed, and
\* indexing past the end fails
parse_segment_fields(fields) ==
    IF Len(fields) < 1 THEN Panic
    ELSE IF ~parse_name(fields[1]).some THEN Returned(None)
    ELSE IF Len(fields) < 2 THEN Panic
    ELSE IF ~parse_sequence(fields[2]).some THEN Returned(None)
    ELSE segment_record(parse_name(fields[1]).val,
                        parse_sequence(fields[2]).val,
                        parse_optional_fields(fields, 2))

\* parse_segment
parse_segment(input) == parse_segment_fields(split_terminator(input, "\t"))

\* the record parse_link builds from the optional fields
link_record(from_segment, from_orient, to_segment, to_orient, overlap, opts) ==
    IF opts.status = "Panic" THEN Panic
    ELSE Returned(Some(
        [from_segment |-> from_segment, from_orient |-> from_orient,
         to_segment |-> to_segment, to_orient |-> to_orient,
         overlap |-> overlap,
         map_quality |->
            optional_field(opts.val, Tag("M", "Q"), "SignedInt"),
         num_mismatches |->
            optional_field(drained_all(opts.val, <<Tag("M", "Q")>>),
                           Tag("N", "M"), "SignedInt"),
         read_count |->
            optional_field(drained_all(opts.val,
                              <<Tag("M", "Q"), Tag("N", "M")>>),
                           Tag("R", "C"), "SignedInt"),
         fragment_count |->
            optional_field(drained_all(opts.val,
                              <<Tag("M", "Q"), Tag("N", "M"),
                                Tag("R", "C")>>),
                           Tag("F", "C"), "SignedInt"),
         kmer_count |->
            optional_field(drained_all(opts.val,
                              <<Tag("M", "Q"), Tag("N", "M"),
                                Tag("R", "C"), Tag("F", "C")>>),
                           Tag("K", "C"), "SignedInt"),
         edge_id |->
            optional_field(drained_all(opts.val,
                              <<Tag("M", "Q"), Tag("N", "M"),
                                Tag("R", "C"), Tag("F", "C"),
                                Tag("K", "C")>>),
                           Tag("I", "D"), "PrintableString"),
         optional_fields |->
            drained_all(opts.val,
                        <<Tag("M", "Q"), Tag("N", "M"), Tag("R", "C"),
                          Tag("F", "C"), Tag("K", "C"), Tag("I", "D")>>)]))

\* the first four columns of a link or containment: name, orientation,
\* name, orientation, each indexed and then parsed with `?`; "Ok" when all
\* four are there and parse
parse_ends(fields) ==
    IF Len(fields) < 1 THEN "Panic"
    ELSE IF ~parse_name(fields[1]).some THEN "None"
    ELSE IF Len(fields) < 2 THEN "Panic"
    ELSE IF ~parse_orient(fields[2]).some THEN "None"
    ELSE IF Len(fields) < 3 THEN "Panic"
    ELSE IF ~parse_name(fields[3]).some THEN "None"
    ELSE IF Len(fields) < 4 THEN "Panic"
    ELSE IF ~parse_orient(fields[4]).some THEN "None"
    ELSE "Ok"

\* parse_link on the columns
parse_link_fields(fields) ==
    IF parse_ends(fields) = "Panic" THEN Panic
    ELSE IF parse_ends(fields) = "None" THEN Returned(None)
    ELSE IF Len(fields) < 5 THEN Panic
    ELSE link_record(parse_name(fields[1]).val, parse_orient(fields[2]).val,
                     parse_name(fields[3]).val, parse_orient(fields[4]).val,
                     fields[5], parse_optional_fields(fields, 5))

\* parse_link
parse_link(input) == parse_link_fields(split_terminator(input, "\t"))

\* the record parse_containment builds: pos.parse::<usize>().unwrap()
\* fails when the position column is no usize
containment_record(container_name, container_orient, contained_name, contained_orient, pos, overlap, opts) ==
    IF opts.status = "Panic" THEN Panic
    ELSE IF ~pos.some THEN Panic
    ELSE Returned(Some(
        [container_name |-> container_name,
         container_orient |-> container_orient,
         contained_name |-> contained_name,
         contained_orient |-> contained_orient,
         overlap |-> overlap,
         pos |-> pos.val,
         read_coverage |->
            optional_field(drained_all(opts.val, <<Tag("N", "M")>>),
                           Tag("R", "C"), "SignedInt"),
         num_mismatches |->
            optional_field(opts.val, Tag("N", "M"), "SignedInt"),
         edge_id |->
            optional_field(drained_all(opts.val,
                              <<Tag("N", "M"), Tag("R", "C")>>),
                           Tag("I", "D"), "PrintableString"),
         optional_fields |->
            drained_all(opts.val,
                        <<Tag("N", "M"), Tag("R", "C"), Tag("I", "D")>>)]))

\* parse_containment on the columns
parse_containment_fields(fields) ==
    IF parse_ends(fields) = "Panic" THEN Panic
    ELSE IF parse_ends(fields) = "None" THEN Returned(None)
    ELSE IF Len(fields) < 6 THEN Panic
    ELSE containment_record(
            parse_name(fields[1]).val, parse_orient(fields[2]).val,
            parse_name(fields[3]).val, parse_orient(fields[4]).val,
            str_parse_unsigned(fields[5], USIZE_MAX), fields[6],
            parse_optional_fields(fields, 6))

\* parse_containment
parse_containment(input) ==
    parse_containment_fields(split_terminator(input, "\t"))

\* one step of Path::new: the last character is the orientation ('+'
\* Forward, '-' Backward), the characters before it the name; a step that
\* is empty or ends in another character is fatal
Path_new_step(step) ==
    IF step = <<>> THEN Panic
    ELSE IF step[Len(step)] = "+"
         THEN Returned(<<Take(step, Len(step) - 1), "Forward">>)
    ELSE IF step[Len(step)] = "-"
         THEN Returned(<<Take(step, Len(step) - 1), "Backward">>)
    ELSE Panic

\* Path::new(name, segment_names, overlaps) of the line parser's Path type:
\* the name, every step as a (name, orientation) pair, the overlaps, and no
\* optional fields yet
Path_new(path_name, steps, overlaps) ==
    IF \E i \in 1..Len(steps) : Path_new_step(steps[i]).status = "Panic"
    THEN Panic
    ELSE Returned(
        [path_name |-> path_name,
         segment_names |->
            [i \in 1..Len(steps) |-> Path_new_step(steps[i]).val],
         overlaps |-> overlaps, optional_fields |-> <<>>])

\* the record parse_path builds once Path::new has returned:
\* result.optional_fields = opt_fields
path_record(result, opts) ==
    IF result.status = "Panic" THEN Panic
    ELSE IF opts.status = "Panic" THEN Panic
    ELSE Returned(Some([result.val EXCEPT !.optional_fields = opts.val]))

\* parse_path on the columns
parse_path_fields(fields) ==
    IF Len(fields) < 1 THEN Panic
    ELSE IF ~parse_name(fields[1]).some THEN Returned(None)
    ELSE IF Len(fields) < 3 THEN Panic
    ELSE path_record(Path_new(parse_name(fields[1]).val,
                              split_terminator(fields[2], ","),
                              split_terminator(fields[3], ",")),
                     parse_optional_fields(fields, 3))

\* parse_path of parser.rs
parse_path(input) == parse_path_fields(split_terminator(input, "\t"))

\* Some(Line::Variant(record)) around what a record parser returned
line_of(variant, parsed) ==
    IF parsed.status = "Panic" THEN Panic
    ELSE IF ~parsed.val.some THEN Returned(None)
    ELSE Returned(Some(Line(variant, parsed.val.val)))

\* Line::Comment
Line_Comment == Line("Comment", <<>>)

\* parse_line: terminated(one_of("HSLCP#"), tab), then the record parser
\* the first byte selects
parse_line(line) ==
    IF Len(line) < 2 \/ line[1] \notin {"H", "S", "L", "C", "P", "#"}
          \/ line[2] # "\t"
    THEN Returned(None)
    ELSE CASE line[1] = "H" -> line_of("Header", parse_header(Drop(line, 2)))
           [] line[1] = "#" -> Returned(Some(Line_Comment))
           [] line[1] = "S" ->
                line_of("Segment", parse_segment(Drop(line, 2)))
           [] line[1] = "L" -> line_of("Link", parse_link(Drop(line, 2)))
           [] line[1] = "C" ->
                line_of("Containment", parse_containment(Drop(line, 2)))
           [] line[1] = "P" -> line_of("Path", parse_path(Drop(line, 2)))

\* GFA::new() of the line parser's GFA type
ParserGFA_new ==
    [version |-> None, segments |-> <<>>, links |-> <<>>,
     containments |-> <<>>, paths |-> <<>>]

\* the body of the loop of parse_gfa: the parsed line stored by kind; a
\* line that gave None, or a comment, changes nothing
parse_gfa_store(g, p) ==
    IF ~p.some THEN g
    ELSE CASE p.val.variant = "Header" ->
                [g EXCEPT !.version = p.val.record.version]
           [] p.val.variant = "Segment" ->
                [g EXCEPT !.segments = Append(@, p.val.record)]
           [] p.val.variant = "Link" ->
                [g EXCEPT !.links = Append(@, p.val.record)]
           [] p.val.variant = "Containment" ->
                [g EXCEPT !.containments = Append(@, p.val.record)]
           [] p.val.variant = "Path" ->
                [g EXCEPT !.paths = Append(@, p.val.record)]
           [] OTHER -> g

---------------------------------------------------------------------------
(* Inputs of the line parser *)

\* columns joined with a separator
RECURSIVE Join(_, _)
Join(columns, sep) ==
    IF columns = <<>> THEN <<>>
    ELSE IF Len(columns) = 1 THEN Head(columns)
    ELSE Head(columns) \o <<sep>> \o Join(Tail(columns), sep)

\* tags, type characters and payloads of optional fields
TagNames == { <<"L", "N">>, <<"X", "1">>, <<"1", "N">> }

TagTypes == FieldTypeChar \cup {"Q"}

TagPayloads ==
    { <<>>, <<"1", "2">>, <<"-", "5">>, <<"+", "7">>,
      <<"1", "2", "a", "b", "c">>, <<"a", "b", "c">>, <<"x">>, <<"x", "y">>,
      <<" ">>, <<"1", "F">>, <<"i", "1", ",", "2">>, <<"i", "1", ",", "x">>,
      <<"f", "1", ".", "5", ",", "2">>,
      <<"f", "1", ".", "5", ",", ",", "2">>, <<"f">>,
      <<"9", "2", "2", "3", "3", "7", "2", "0", "3", "6", "8", "5", "4", "7", "7", "5", "8", "0", "8">>,
      <<"-", "9", "2", "2", "3", "3", "7", "2", "0", "3", "6", "8", "5", "4", "7", "7", "5", "8", "0", "8">>,
      <<"1", ".", "5", "e", "3">>,
      <<"h", "t", "t", "p", ":", "/", "/", "a">> }

\* the longest cut of a tag text that is tried
MaxTagCut == 5

\* tag:type:payload texts, and their first few bytes alone
TagTexts ==
    { name \o <<":", type, ":">> \o payload :
        name \in TagNames, type \in TagTypes, payload \in TagPayloads }
    \cup { Take(<<"L", "N", ":", type, ":", "1">>, n) :
             type \in {"Z", "B", "Q"}, n \in 0..MaxTagCut }

\* the columns of the tests' segment, link, containment and path, shortened
SegmentColumns == << <<"1">>, <<"A", "C", "G", "T">>, <<"L", "N", ":", "i", ":", "4">> >>

LinkColumns ==
    << <<"1">>, <<"+">>, <<"2">>, <<"-">>, <<"4", "M">>, <<"M", "Q", ":", "i", ":", "5">> >>

ContainmentColumns ==
    << <<"1">>, <<"-">>, <<"2">>, <<"+">>, <<"1", "1", "0">>, <<"1", "0", "0", "M">>, <<"N", "M", ":", "i", ":", "1">> >>

PathColumns ==
    << <<"1", "4">>, <<"1", "+", ",", "2", "-">>, <<"4", "M">>, <<"X", "X", ":", "Z", ":", "a">> >>

\* what a column of a record is replaced by
RecordColumnChoices ==
    { <<>>, <<"x">>, <<"*">>, <<"=">>, <<"+">>, <<"5", "x">>,
      <<"1", "8", "4", "4", "6", "7", "4", "4", "0", "7", "3", "7", "0", "9", "5", "5", "1", "6", "1", "6">>,
      <<"L", "N", ":", "Q", ":", "1">>, <<"L", "N", ":", "i", ":", "x">>,
      <<"L", "N">>, <<"L", "N", ":", "i", ":", "7">> }

\* records of at most Len(columns) columns with one column replaced
RecordTexts(columns) ==
    { Join([i \in 1..n |-> IF i = c THEN v ELSE columns[i]], "\t") :
        c \in 1..Len(columns), v \in RecordColumnChoices,
        n \in 0..Len(columns) }

\* lines of a file: well-formed records of each kind, records that fail to
\* parse, lines of no known kind, an empty line, a comment, and a segment
\* with a tag of an unknown type
FileLines ==
    { <<"H", "\t", "V", "N", ":", "Z", ":", "1", ".", "0">>,
      <<"S", "\t", "1", "\t", "A", "C", "G", "T">>,
      <<"S", "\t", "2", "\t", "A", "\t", "L", "N", ":", "i", ":", "1">>,
      <<"S", "\t", "\t", "A", "C", "G", "T">>, <<"S", "\t", "1">>,
      <<"L", "\t", "1", "\t", "+", "\t", "2", "\t", "-", "\t", "4", "M">>,
      <<"L", "\t", "1", "\t", "x", "\t", "2", "\t", "-", "\t", "4", "M">>,
      <<"C", "\t", "1", "\t", "-", "\t", "2", "\t", "+", "\t", "1", "1", "0", "\t", "1", "0", "0", "M">>,
      <<"C", "\t", "1", "\t", "-", "\t", "2", "\t", "+", "\t", "x", "\t", "1", "0", "0", "M">>,
      <<"P", "\t", "1", "4", "\t", "1", "+", ",", "2", "-", "\t", "4", "M">>,
      <<"X", "\t", "f", "o", "o">>, <<>>, <<"#", "\t", "n", "o", "t", "e">>,
      <<"S", "\t", "3", "\t", "G", "\t", "X", "X", ":", "Q", ":", "a", "b", "c">> }

\* every text a parser.rs function is called on
ParserInputs ==
    TagTexts
    \cup RecordTexts(SegmentColumns) \cup RecordTexts(LinkColumns)
    \cup RecordTexts(ContainmentColumns) \cup RecordTexts(PathColumns)
    \cup FileLines
    \cup { <<"S", "\t">> \o t : t \in RecordTexts(SegmentColumns) }
    \cup { <<"C", "\t">> \o t : t \in RecordTexts(ContainmentColumns) }

MaxFileLines == 2

\* the files a driving loop reads
Files == UNION { [1..n -> FileLines] : n \in 0..MaxFileLines }

---------------------------------------------------------------------------
(* The driving loops of parser.rs: parse_gfa and parse_gfa_stream *)

\* the for loop of parse_gfa from line k on: a panic of parse_line unwinds
\* out of the loop; otherwise the parsed line is stored and the loop goes on
RECURSIVE parse_gfa_lines(_, _, _)
parse_gfa_lines(lines, k, g) ==
    IF k > Len(lines) THEN [state |-> "Returned", gfa |-> g, pos |-> k - 1]
    ELSE IF parse_line(lines[k]).status = "Panic"
         THEN [state |-> "Panic", gfa |-> g, pos |-> k]
    ELSE parse_gfa_lines(lines, k + 1,
                         parse_gfa_store(g, parse_line(lines[k]).val))

\* parse_gfa on the lines of the file: GFA::new(), the loop, Some(gfa)
parse_gfa(lines) == parse_gfa_lines(lines, 1, ParserGFA_new)

\* the closure parse_gfa_stream maps over the lines: the parsed line, or a
\* panic when parse_line gives None (or panics itself)
parse_gfa_stream_item(l) ==
    IF parse_line(l).status = "Panic" THEN Panic
    ELSE IF ~parse_line(l).val.some THEN Panic
    ELSE Returned(parse_line(l).val.val)

DriverInit ==
    /\ file \in Files
    /\ drv = "none"
    /\ drv_pos = 0
    /\ drv_state = "Idle"
    /\ drv_gfa = <<>>
    /\ drv_out = <<>>
    /\ CallIdle
    /\ CigarIdle
    /\ GafIdle
    /\ PathIdle
    /\ GraphIdle
    /\ ErrorIdle

\* parse_gfa(path): the whole file is read and the graph returned
CallParseGfa ==
    /\ drv = "none"
    /\ drv' = "parse_gfa"
    /\ drv_state' = parse_gfa(file).state
    /\ drv_gfa' = parse_gfa(file).gfa
    /\ drv_pos' = parse_gfa(file).pos
    /\ UNCHANGED <<file, drv_out, psrVars>>
    /\ UNCHANGED <<cigarVars, gafVars, pathVars, graphVars, errVars>>

\* parse_gfa_stream(lines): the lazy iterator, no line read yet
CallParseGfaStream ==
    /\ drv = "none"
    /\ drv' = "parse_gfa_stream"
    /\ drv_state' = "Running"
    /\ UNCHANGED <<file, drv_pos, drv_gfa, drv_out, psrVars>>
    /\ UNCHANGED <<cigarVars, gafVars, pathVars, graphVars, errVars>>

\* next() on the iterator with the item the closure gave for the next line
StreamNextWith(item) ==
    /\ drv_pos' = drv_pos + 1
    /\ drv_state' = IF item.status = "Panic" THEN "Panic" ELSE "Running"
    /\ drv_out' = IF item.status = "Panic" THEN drv_out
                  ELSE Append(drv_out, item.val)

\* next() on the iterator parse_gfa_stream returned
StreamNext ==
    /\ drv = "parse_gfa_stream"
    /\ drv_state = "Running"
    /\ IF drv_pos = Len(file)
       THEN drv_state' = "Finished" /\ UNCHANGED <<drv_pos, drv_out>>
       ELSE StreamNextWith(parse_gfa_stream_item(file[drv_pos + 1]))
    /\ UNCHANGED <<file, drv, drv_gfa, psrVars>>
    /\ UNCHANGED <<cigarVars, gafVars, pathVars, graphVars, errVars>>

DriverNext == CallParseGfa \/ CallParseGfaStream \/ StreamNext

SpecDriver == DriverInit /\ [][DriverNext]_vars

---------------------------------------------------------------------------
(* Vocabulary of the driving-loop claims *)

\* the record-kind marker of a line: its first column
Kind(line) == BeforeTab(line)

\* the line is of one of the five record kinds
RecognizedKind(line) ==
    Kind(line) \in { <<"H">>, <<"S">>, <<"L">>, <<"C">>, <<"P">> }

\* the line is empty or begins with a marker that is no record kind and no
\* comment: the two recoverable kinds of line
RecoverableLine(line) ==
    \/ line = <<>>
    \/ Kind(line) \notin
         { <<"H">>, <<"S">>, <<"L">>, <<"C">>, <<"P">>, <<"#">> }

\* the line gives no record: parse_line returns None or panics
FailsToParse(line) ==
    \/ parse_line(line).status = "Panic"
    \/ ~parse_line(line).val.some

\* the loop has stopped on line k of the file
StoppedAt(k) == drv_state = "Panic" /\ drv_pos = k

\* C16: a line of a recognized record kind (H, S, L, C, P) that fails to
\* parse stops the driving loop on that line: no loop reads past it, so no
\* graph is returned without the record
C16_MalformedRecordStopsLoop ==
    \A k \in 1..drv_pos :
        RecognizedKind(file[k]) /\ FailsToParse(file[k]) => StoppedAt(k)

\* C17: a driving loop does not abort on an empty line or a line with an
\* unrecognized marker: it goes on to the next line, so the well-formed
\* records after it are still delivered
C17_UnrecognizedLineSkipped ==
    \A k \in 1..drv_pos : RecoverableLine(file[k]) => ~StoppedAt(k)

---------------------------------------------------------------------------
(* The tag, record and line parsers of parser.rs, called on one text *)

ParserInit ==
    /\ psr_in \in ParserInputs
    /\ psr_call = "none"
    /\ psr_res = NotCalled
    /\ DriverIdle
    /\ CigarIdle
    /\ GafIdle
    /\ PathIdle
    /\ GraphIdle
    /\ ErrorIdle

\* parse_optional_field(input)
CallParseOptionalField ==
    /\ psr_call = "none"
    /\ psr_call' = "parse_optional_field"
    /\ psr_res' = parse_optional_field(psr_in)
    /\ UNCHANGED <<psr_in, drvVars>>
    /\ UNCHANGED <<cigarVars, gafVars, pathVars, graphVars, errVars>>

\* parse_segment(input)
CallParseSegment ==
    /\ psr_call = "none"
    /\ psr_call' = "parse_segment"
    /\ psr_res' = parse_segment(psr_in)
    /\ UNCHANGED <<psr_in, drvVars>>
    /\ UNCHANGED <<cigarVars, gafVars, pathVars, graphVars, errVars>>

\* parse_link(input)
CallParseLink ==
    /\ psr_call = "none"
    /\ psr_call' = "parse_link"
    /\ psr_res' = parse_link(psr_in)
    /\ UNCHANGED <<psr_in, drvVars>>
    /\ UNCHANGED <<cigarVars, gafVars, pathVars, graphVars, errVars>>

\* parse_containment(input)
CallParseContainment ==
    /\ psr_call = "none"
    /\ psr_call' = "parse_containment"
    /\ psr_res' = parse_containment(psr_in)
    /\ UNCHANGED <<psr_in, drvVars>>
    /\ UNCHANGED <<cigarVars, gafVars, pathVars, graphVars, errVars>>

\* parse_path(input)
CallParsePathRecord ==
    /\ psr_call = "none"
    /\ psr_call' = "parse_path"
    /\ psr_res' = parse_path(psr_in)
    /\ UNCHANGED <<psr_in, drvVars>>
    /\ UNCHANGED <<cigarVars, gafVars, pathVars, graphVars, errVars>>

\* parse_line(line)
CallParseLine ==
    /\ psr_call = "none"
    /\ psr_call' = "parse_line"
    /\ psr_res' = parse_line(psr_in)
    /\ UNCHANGED <<psr_in, drvVars>>
    /\ UNCHANGED <<cigarVars, gafVars, pathVars, graphVars, errVars>>

ParserNext ==
    \/ CallParseOptionalField
    \/ CallParseSegment
    \/ CallParseLink
    \/ CallParseContainment
    \/ CallParsePathRecord
    \/ CallParseLine

SpecParser == ParserInit /\ [][ParserNext]_vars

---------------------------------------------------------------------------
(* Vocabulary of the tag and record claims *)

\* a text of the shape NN:T:payload with a well-formed two-character name
TagShaped(t) ==
    /\ Len(t) >= 5
    /\ t[1] \in Upper \cup Lower
    /\ t[2] \in Upper \cup Lower \cup Digit
    /\ t[3] = ":"
    /\ t[5] = ":"

\* the type character and the payload of a tag-shaped text
TypeOf(t) == t[4]

PayloadOf(t) == Drop(t, 5)

\* a tag-shaped text whose type character is none of A, i, f, Z, J, H, B
UnknownTypeTag(t) == TagShaped(t) /\ TypeOf(t) \notin FieldTypeChar

\* the call returned the ordinary "no value"
ReturnedNone == psr_res.status = "Returned" /\ ~psr_res.val.some

\* the call returned a value
ReturnedSome == psr_res.status = "Returned" /\ psr_res.val.some

\* the optional columns of a record of the given number of required columns
OptionalColumns(t, required) ==
    { split_terminator(t, "\t")[i] :
        i \in (required + 1)..Len(split_terminator(t, "\t")) }

\* C18: a tag with a type character outside A, i, f, Z, J, H, B is never
\* answered with the ordinary "no value", and a segment record that holds
\* such a tag is never returned with the tag skipped
C18_UnknownTypeIsFatal ==
    /\ (psr_call = "parse_optional_field" /\ UnknownTypeTag(psr_in))
           => ~ReturnedNone
    /\ (psr_call = "parse_segment"
          /\ \E c \in OptionalColumns(psr_in, 2) : UnknownTypeTag(c))
           => ~ReturnedSome

\* C19: no record parser (segment, link, containment, path) panics on its
\* input: too few columns or a malformed column gives a returned value
C19_RecordParsersNeverPanic ==
    psr_call \in {"parse_segment", "parse_link", "parse_containment",
                  "parse_path"}
        => psr_res.status # "Panic"

\* an optionally signed decimal integer, and nothing else
SignedIntegerText(p) ==
    /\ p # <<>>
    /\ IF Head(p) \in {"+", "-"}
       THEN Len(p) >= 2 /\ \A i \in 2..Len(p) : p[i] \in Digit
       ELSE \A i \in 1..Len(p) : p[i] \in Digit

\* exactly one printable character
OnePrintableText(p) == Len(p) = 1 /\ p[1] \in Graphic

\* an element of a B array of the given subtype parses as a number
ElementParses(subtype, e) ==
    IF subtype = "f" THEN str_parse_f32(e).some ELSE str_parse_i64(e).some

\* a B payload with a subtype marker and an element that does not parse
HasUnparsableElement(p) ==
    /\ p # <<>>
    /\ \E i \in 1..Len(split_terminator(Tail(p), ",")) :
           ~ElementParses(Head(p), split_terminator(Tail(p), ",")[i])

\* the payload of the tag is outside the lexical class of its type, for the
\* types i, A and B
MalformedPayload(t) ==
    \/ TypeOf(t) = "i" /\ ~SignedIntegerText(PayloadOf(t))
    \/ TypeOf(t) = "A" /\ ~OnePrintableText(PayloadOf(t))
    \/ TypeOf(t) = "B" /\ HasUnparsableElement(PayloadOf(t))

\* C20: decoding a tag whose payload is not, as a whole, in the lexical
\* class of its type gives no value: an i payload that is not entirely a
\* signed decimal integer, an A payload that is not exactly one printable
\* character, a B array with an element that does not parse
C20_MalformedPayloadRejected ==
    (psr_call = "parse_optional_field" /\ TagShaped(psr_in)
        /\ MalformedPayload(psr_in))
      => ~ReturnedSome

---------------------------------------------------------------------------
(* Trailing tag columns of a record *)

\* a column that is no tag: not of the shape NN:T:payload, of an unknown
\* type, or with a payload outside the lexical class of its type
MalformedTag(c) ==
    \/ ~TagShaped(c)
    \/ TypeOf(c) \notin FieldTypeChar
    \/ MalformedPayload(c)

\* the number of trailing columns of a record of the given number of
\* required columns
TrailingCount(t, required) ==
    IF Len(split_terminator(t, "\t")) > required
    THEN Len(split_terminator(t, "\t")) - required
    ELSE 0

\* the number of well-known tags a parsed segment holds by name
PeeledCount(segment) ==
    Cardinality({ f \in { "segment_length", "read_count", "fragment_count",
                          "kmer_count", "sha256", "uri" } :
                    segment[f].some })

\* C21: a segment whose trailing columns hold a malformed tag does not
\* parse, and the tags of a parsed segment (those held by name and those
\* captured) are as many as its trailing columns
C21_EveryTrailingColumnValidated ==
    (psr_call = "parse_segment" /\ ReturnedSome)
      => /\ \A c \in OptionalColumns(psr_in, 2) : ~MalformedTag(c)
         /\ PeeledCount(psr_res.val.val)
              + Len(psr_res.val.val.optional_fields)
            = TrailingCount(psr_in, 2)

---------------------------------------------------------------------------
(* drain_optional_field and optional_field! on a captured tag sequence *)

\* the tags a sequence is built from: the same name with several contents,
\* and other names
DrainFields ==
    { OptionalField(Tag("L", "N"),
                    OptionalFieldValue("SignedInt", I64(FALSE, <<1>>))),
      OptionalField(Tag("L", "N"),
                    OptionalFieldValue("SignedInt", I64(FALSE, <<2>>))),
      OptionalField(Tag("L", "N"),
                    OptionalFieldValue("PrintableString", <<"a">>)),
      OptionalField(Tag("R", "C"),
                    OptionalFieldValue("SignedInt", I64(FALSE, <<1>>))),
      OptionalField(Tag("X", "X"),
                    OptionalFieldValue("PrintableString", <<"a">>)) }

\* the names asked for: two that occur and one that never does
DrainTags == { Tag("L", "N"), Tag("R", "C"), Tag("K", "C") }

MaxTags == 3

\* a captured tag sequence and the name to remove from it
DrainInputs ==
    [opts : UNION { [1..n -> DrainFields] : n \in 0..MaxTags },
     tag : DrainTags]

DrainInit ==
    /\ psr_in \in DrainInputs
    /\ psr_call = "none"
    /\ psr_res = NotCalled
    /\ DriverIdle
    /\ CigarIdle
    /\ GafIdle
    /\ PathIdle
    /\ GraphIdle
    /\ ErrorIdle

\* drain_optional_field(&mut opts, tag): what it returns and opts after it
CallDrainOptionalField ==
    /\ psr_call = "none"
    /\ psr_call' = "drain_optional_field"
    /\ psr_res' = Returned([removed |->
                               drain_optional_field(psr_in.opts, psr_in.tag),
                            opts |-> drained(psr_in.opts, psr_in.tag)])
    /\ UNCHANGED <<psr_in, drvVars>>
    /\ UNCHANGED <<cigarVars, gafVars, pathVars, graphVars, errVars>>

\* optional_field!(&mut opts, tag, SignedInt): what it evaluates to and
\* opts after it
CallOptionalField ==
    /\ psr_call = "none"
    /\ psr_call' = "optional_field"
    /\ psr_res' = Returned([removed |->
                               optional_field(psr_in.opts, psr_in.tag,
                                              "SignedInt"),
                            opts |-> drained(psr_in.opts, psr_in.tag)])
    /\ UNCHANGED <<psr_in, drvVars>>
    /\ UNCHANGED <<cigarVars, gafVars, pathVars, graphVars, errVars>>

DrainNext == CallDrainOptionalField \/ CallOptionalField

SpecDrain == DrainInit /\ [][DrainNext]_vars

\* the positions of the tags of the given name
MatchPositions(opts, tag) == { i \in 1..Len(opts) : opts[i].tag = tag }

\* the least of a non-empty set of positions
Least(positions) == CHOOSE i \in positions : \A j \in positions : i <= j

\* the sequence without its k-th element
Without(opts, k) ==
    [i \in 1..(Len(opts) - 1) |-> IF i < k THEN opts[i] ELSE opts[i + 1]]

\* the first tag of that name was returned and only it was removed
FirstMatchRemoved(opts, tag, result) ==
    /\ result.removed.some
    /\ result.removed.val = opts[Least(MatchPositions(opts, tag))]
    /\ result.opts = Without(opts, Least(MatchPositions(opts, tag)))

\* nothing was returned and the sequence is as it was
NothingRemoved(opts, result) ==
    /\ ~result.removed.some
    /\ result.opts = opts

\* C22: removing a tag by name returns the first tag of that name and
\* removes only it, the other tags (later tags of the same name included)
\* staying in their order; with no tag of that name nothing is returned and
\* the sequence is unchanged
C22_FirstMatchRemoved ==
    psr_call = "drain_optional_field"
      => IF MatchPositions(psr_in.opts, psr_in.tag) = {}
         THEN NothingRemoved(psr_in.opts, psr_res.val)
         ELSE FirstMatchRemoved(psr_in.opts, psr_in.tag, psr_res.val)

\* a tag was removed from a sequence that holds a different tag of the same
\* name after it and a tag of another name
C22_Witness ==
    /\ psr_call = "drain_optional_field"
    /\ Cardinality(MatchPositions(psr_in.opts, psr_in.tag)) >= 2
    /\ psr_in.opts[1] # psr_in.opts[Len(psr_in.opts)]
    /\ Len(psr_res.val.opts) = Len(psr_in.opts) - 1
    /\ \E i \in 1..Len(psr_in.opts) : psr_in.opts[i].tag # psr_in.tag

---------------------------------------------------------------------------
(* The prefix CIGAR::parse consumes, under SpecCigar *)

\* the positions of the operation codes of s
OpPositions(s) == { i \in 1..Len(s) : s[i] \in OpByte }

\* the position of the k-th operation code of s
NthOp(s, k) ==
    CHOOSE i \in OpPositions(s) :
        Cardinality({ j \in OpPositions(s) : j <= i }) = k

\* the operation an operation code denotes
OpOf(c) == IF c = "=" THEN "E" ELSE c

\* the k-th run of a valid CIGAR text: the number its digits denote and the
\* operation of the code that ends them
ExpectedRun(s, k) ==
    << DecimalValue(SubSeq(s, IF k = 1 THEN 1 ELSE NthOp(s, k - 1) + 1,
                           NthOp(s, k) - 1)),
       OpOf(s[NthOp(s, k)]) >>

\* the runs of a valid CIGAR text, in order
ExpectedRuns(s) ==
    [k \in 1..Cardinality(OpPositions(s)) |-> ExpectedRun(s, k)]

\* s begins with a complete run whose length fits u32
BeginsWithReadableRun(s) ==
    /\ BeginsWithRun(s)
    /\ ~Lt10(U32_MAX, DecimalValue(Take(s, PrefixLen(s, Digit))))

\* the first n bytes of the input are complete runs, the result holds
\* exactly these runs, and the remainder is the rest of the input, at whose
\* start no further complete run can be read
ConsumedPrefix(input, n, result) ==
    /\ ValidCigarText(Take(input, n))
    /\ RunsFitU32(Take(input, n))
    /\ result.val = ExpectedRuns(Take(input, n))
    /\ result.rest = Drop(input, n)
    /\ ~BeginsWithReadableRun(Drop(input, n))

\* C23: CIGAR::parse returns on every input; on an input that begins with
\* a complete run it returns the runs of the longest prefix made of
\* complete runs, and as remainder the rest of the input from the first
\* position where no complete run can be read, so that the bytes consumed
\* followed by the remainder are the input
C23_MaximalPrefixConsumed ==
    cigar_res # NotCalled =>
        /\ cigar_res.status \in {"Ok", "Err"}
        /\ BeginsWithReadableRun(cigar_in) => cigar_res.status = "Ok"
        /\ cigar_res.status = "Ok" =>
              \E n \in 1..Len(cigar_in) :
                  ConsumedPrefix(cigar_in, n, cigar_res)

---------------------------------------------------------------------------
(* The shape of one step, under SpecGaf *)

\* the bytes of a step text after its identity
AfterIdentity(t) == Drop(t, 1 + PrefixLenNot(Tail(t), NameStop))

\* r begins with an interval: ":" digits "-" digits
BeginsWithInterval(r) ==
    /\ Len(r) >= 4
    /\ r[1] = ":"
    /\ PrefixLen(Tail(r), Digit) >= 1
    /\ Len(r) >= PrefixLen(Tail(r), Digit) + 3
    /\ r[PrefixLen(Tail(r), Digit) + 2] = "-"
    /\ r[PrefixLen(Tail(r), Digit) + 3] \in Digit

\* t is a marker and an identity followed by a ':' that begins no interval
ColonWithoutInterval(t) ==
    /\ BeginsWithStep(t)
    /\ AfterIdentity(t) # <<>>
    /\ Head(AfterIdentity(t)) = ":"
    /\ ~BeginsWithInterval(AfterIdentity(t))

\* C24: GAFStep::parse_step gives an error for a text that does not start
\* with '>' or '<', and rejects an identity followed by a ':' that is not
\* followed by an interval of digits start-end: it does not accept it as a
\* plain segment reference
C24_ColonRequiresInterval ==
    gaf_call = "parse_step" =>
        /\ (gaf_in[6] = <<>> \/ gaf_in[6][1] \notin Marker)
              => gaf_res.status = "Err"
        /\ ColonWithoutInterval(gaf_in[6]) => gaf_res.status # "Ok"

---------------------------------------------------------------------------
(* The target-name column of a GAF record, under SpecGaf *)

\* parse_gaf returned a record
GafReturned ==
    /\ gaf_call = "parse_gaf"
    /\ gaf_res.status = "Returned"
    /\ gaf_res.val.some

\* C25: when parse_gaf returns a record, its path accounts for every byte
\* of the target-name column: a walk is returned only for a column that is
\* one or more steps and nothing else, and a stable identifier is the whole
\* column
C25_WholeColumnConsumed ==
    GafReturned =>
        /\ gaf_res.val.val.path.kind = "OrientIntv"
              => OrientedWalkText(gaf_in[6])
        /\ gaf_res.val.val.path.kind = "StableId"
              => gaf_res.val.val.path.id = gaf_in[6]

===========================================================================
